---- MODULE Spec2Model ----
(***************************************************************************)
(* Model of the content pipeline of mostlyerror/lattice:                   *)
(*   internal/services  SourceContentService.ProcessYouTubeURL and the     *)
(*                      ClaudeService derivation calls it drives,          *)
(*   internal/db        the source_contents / concepts / quiz_questions /  *)
(*                      generated_contents repositories,                   *)
(*   pkg/youtube        Client.GetVideoInfo.                               *)
(* The relational store is one record `db`; every run of                   *)
(* ProcessYouTubeURL is a process p with the Go locals of the function as  *)
(* per-process variables.  External collaborators (yt-dlp, the caption    *)
(* download, the derivation service, database faults) answer               *)
(* nondeterministically.                                                   *)
(***************************************************************************)
EXTENDS Integers, Sequences, FiniteSets, TLC

(***************************************************************************)
(* Bounds of the model.                                                    *)
(***************************************************************************)
\* number of ProcessYouTubeURL calls issued in one behaviour
MaxCalls == 3
\* longest concept list the derivation service returns
MaxConcepts == 2
\* longest question list the derivation service returns for one concept
MaxQuestions == 1

\* the request goroutines that may run ProcessYouTubeURL
Procs == {1, 2}

\* references submitted by callers: a video not processed before, the video
\* an earlier run has processed, and a string of no accepted shape
NewURL == "https://youtu.be/a"

ProcessedURL == "https://www.youtube.com/watch?v=b"

BadURL == "ftp://example/c"

URLs == {NewURL, ProcessedURL, BadURL}

\* the title of the i-th concept of a derivation reply
Title(i) == "t" \o ToString(i)

\* correct_answer values as they arrive in the derivation reply
RawAnswers == {"b", "E"}

(***************************************************************************)
(* Small helpers.                                                          *)
(***************************************************************************)
Min(S) == CHOOSE x \in S : \A y \in S : x <= y

Range(s) == {s[i] : i \in 1..Len(s)}

SeqsUpTo(S, n) == UNION {[1..k -> S] : k \in 0..n}

RECURSIVE Flatten(_)
Flatten(ss) == IF Len(ss) = 0 THEN <<>> ELSE Head(ss) \o Flatten(Tail(ss))

\* all orderings of the finite set S in which no element comes after one
\* it must precede (rows with equal sort keys come in any order)
Orderings(S, dir) ==
    LET Before(a, b) == IF dir = "DESC" THEN a.createdAt > b.createdAt
                                        ELSE a.createdAt < b.createdAt
    IN {s \in [1..Cardinality(S) -> S] :
        /\ \A i, j \in 1..Cardinality(S) : i # j => s[i] # s[j]
        /\ \A i, j \in 1..Cardinality(S) : i < j => ~Before(s[j], s[i])}

(***************************************************************************)
(* Zero values of the Go model structs (a nil pointer is the zero row:     *)
(* SERIAL ids start at 1, so id = 0 never names a stored row).             *)
(***************************************************************************)
NoSource == [id |-> 0, url |-> "", title |-> "", transcript |-> ""]

\* the fields of a VideoInfo that ProcessYouTubeURL reads
NoVideoInfo == [title |-> "", text |-> ""]

NoResult ==
    [nonNil |-> FALSE, err |-> "", SourceContent |-> NoSource,
     Concepts |-> <<>>, Quizzes |-> <<>>, GeneratedContent |-> <<>>]

(***************************************************************************)
(* pkg/youtube                                                             *)
(***************************************************************************)
\* ValidateURL: nil iff the reference matches one of the three shapes
\* watch?v=, youtu.be/, embed/
ValidateURL(url) ==
    url \in {NewURL, ProcessedURL}

\* what the external tool, the caption endpoint and the decoder answer
VideoEnvs ==
    [meta : {"ok", "fail"},
     transcript : {"ok", "toolFail", "noTrack", "downloadFail", "parseFail", "empty"}]

\* GetVideoMetadata: validation, then one yt-dlp invocation
GetVideoMetadata(url, env) ==
    IF ~ValidateURL(url) THEN [ok |-> FALSE, title |-> "", calls |-> <<>>]
    ELSE IF env.meta = "fail" THEN [ok |-> FALSE, title |-> "", calls |-> <<"yt-dlp">>]
    ELSE [ok |-> TRUE, title |-> "video title", calls |-> <<"yt-dlp">>]

\* GetTranscript: validation, yt-dlp, locate, download, decode, clean
GetTranscript(url, env) ==
    IF ~ValidateURL(url) THEN [ok |-> FALSE, text |-> "", calls |-> <<>>]
    ELSE IF env.transcript \in {"toolFail", "noTrack"}
         THEN [ok |-> FALSE, text |-> "", calls |-> <<"yt-dlp">>]
    ELSE IF env.transcript \in {"downloadFail", "parseFail", "empty"}
         THEN [ok |-> FALSE, text |-> "", calls |-> <<"yt-dlp", "download">>]
    ELSE [ok |-> TRUE, text |-> "transcript text", calls |-> <<"yt-dlp", "download">>]

\* GetVideoInfo: metadata first; the transcript only if metadata succeeded
GetVideoInfo(url, env) ==
    LET m == GetVideoMetadata(url, env)
        t == GetTranscript(url, env)
    IN IF ~m.ok
       THEN [nonNil |-> FALSE, hasTranscript |-> FALSE, err |-> TRUE,
             title |-> "", text |-> "", calls |-> m.calls]
       ELSE IF ~t.ok
       THEN [nonNil |-> TRUE, hasTranscript |-> FALSE, err |-> TRUE,
             title |-> m.title, text |-> "", calls |-> m.calls \o t.calls]
       ELSE [nonNil |-> TRUE, hasTranscript |-> TRUE, err |-> FALSE,
             title |-> m.title, text |-> t.text, calls |-> m.calls \o t.calls]

(***************************************************************************)
(* pkg/youtube: SubtitleParser.  A Go string is the sequence of its        *)
(* characters; the payloads of the model contain no whitespace other than  *)
(* space, \n, \t and \r, on which regexp's \s and unicode.IsSpace agree.   *)
(***************************************************************************)
IsSpace(c) == c \in {" ", "\n", "\t", "\r"}

Max(S) == CHOOSE x \in S : \A y \in S : x >= y

\* s[n+1:]
Drop(s, n) == SubSeq(s, n + 1, Len(s))

\* strings.HasPrefix
HasPrefix(s, prefix) == Len(s) >= Len(prefix) /\ SubSeq(s, 1, Len(prefix)) = prefix

\* the positions at which sub occurs in s
Occurrences(s, sub) ==
    {i \in 1..(Len(s) - Len(sub) + 1) : SubSeq(s, i, i + Len(sub) - 1) = sub}

\* strings.Contains
Contains(s, sub) == Occurrences(s, sub) # {}

\* the positions of the characters of s that are not white space
NonSpace(s) == {i \in 1..Len(s) : ~IsSpace(s[i])}

TrimLeft(s) ==
    IF NonSpace(s) = {} THEN <<>> ELSE SubSeq(s, Min(NonSpace(s)), Len(s))

TrimRight(s) ==
    IF NonSpace(s) = {} THEN <<>> ELSE SubSeq(s, 1, Max(NonSpace(s)))

\* strings.TrimSpace
TrimSpace(s) == TrimRight(TrimLeft(s))

\* strings.Split(s, sep) for a non-empty sep
RECURSIVE Split(_, _)
Split(s, sep) ==
    IF Occurrences(s, sep) = {} THEN <<s>>
    ELSE LET i == Min(Occurrences(s, sep))
         IN <<SubSeq(s, 1, i - 1)>> \o Split(Drop(s, i + Len(sep) - 1), sep)

\* strings.Join
RECURSIVE Join(_, _)
Join(ss, sep) ==
    IF Len(ss) = 0 THEN <<>>
    ELSE IF Len(ss) = 1 THEN ss[1]
    ELSE ss[1] \o sep \o Join(Tail(ss), sep)

\* strings.ReplaceAll(s, old, ""): the non-overlapping occurrences of old,
\* found from the left, are removed
RECURSIVE RemoveAll(_, _)
RemoveAll(s, old) ==
    IF Occurrences(s, old) = {} THEN s
    ELSE LET i == Min(Occurrences(s, old))
         IN SubSeq(s, 1, i - 1) \o RemoveAll(Drop(s, i + Len(old) - 1), old)

\* regexp `\s+` replaced by " "
RECURSIVE CollapseSpace(_)
CollapseSpace(s) ==
    LET spaces == {i \in 1..Len(s) : IsSpace(s[i])}
    IN IF spaces = {} THEN s
       ELSE LET i == Min(spaces)
            IN SubSeq(s, 1, i - 1) \o <<" ">> \o CollapseSpace(TrimLeft(Drop(s, i)))

\* regexp `<[^>]+>` replaced by ""
RECURSIVE RemoveTags(_)
RemoveTags(s) ==
    LET closing(i) == {j \in (i + 2)..Len(s) : s[j] = ">"}
        opening == {i \in 1..(Len(s) - 2) :
                       s[i] = "<" /\ s[i + 1] # ">" /\ closing(i) # {}}
    IN IF opening = {} THEN s
       ELSE LET i == Min(opening)
            IN SubSeq(s, 1, i - 1) \o RemoveTags(Drop(s, Min(closing(i))))

Music == <<"[", "M", "u", "s", "i", "c", "]">>

Applause == <<"[", "A", "p", "p", "l", "a", "u", "s", "e", "]">>

Laughter == <<"[", "L", "a", "u", "g", "h", "t", "e", "r", "]">>

Arrow == <<"-", "-", ">">>

WEBVTT == <<"W", "E", "B", "V", "T", "T">>

NOTE == <<"N", "O", "T", "E">>

STYLE == <<"S", "T", "Y", "L", "E">>

\* the letters of the header in upper case (the (?i) flag)
Fold(c) ==
    CASE c = "w" -> "W" [] c = "e" -> "E" [] c = "b" -> "B"
      [] c = "v" -> "V" [] c = "t" -> "T" [] OTHER -> c

\* regexp `(?i)^WEBVTT[^\n]*\n` replaced by "": the first line, when the
\* text starts with the header and the line is terminated
RemoveHeader(s) ==
    IF /\ Len(s) >= Len(WEBVTT)
       /\ [i \in 1..Len(WEBVTT) |-> Fold(s[i])] = WEBVTT
       /\ Contains(s, <<"\n">>)
    THEN Drop(s, Min(Occurrences(s, <<"\n">>)))
    ELSE s

\* regexp `(?m)^NOTE.*$` replaced by "": every line starting with NOTE is
\* emptied
RemoveNotes(s) ==
    LET lines == Split(s, <<"\n">>)
    IN Join([i \in 1..Len(lines) |->
                IF HasPrefix(lines[i], NOTE) THEN <<>> ELSE lines[i]], <<"\n">>)

\* regexp `(?s)STYLE\s*\n.*?\n\n` replaced by "": from STYLE, over the
\* longest whitespace run that still leaves a \n to end it, up to the
\* first blank line after that \n
RECURSIVE RemoveStyles(_)
RemoveStyles(s) ==
    LET rest(i) == Drop(s, i + Len(STYLE) - 1)
        run(i) == Len(rest(i)) - Len(TrimLeft(rest(i)))
        ends(i, j) == {m \in (j + 2)..(Len(rest(i)) - 1) :
                          rest(i)[m] = "\n" /\ rest(i)[m + 1] = "\n"}
        js(i) == {j \in 0..(run(i) - 1) :
                     rest(i)[j + 1] = "\n" /\ ends(i, j) # {}}
        starts == {i \in Occurrences(s, STYLE) : js(i) # {}}
    IN IF starts = {} THEN s
       ELSE LET i == Min(starts)
            IN SubSeq(s, 1, i - 1)
               \o RemoveStyles(Drop(rest(i), Min(ends(i, Max(js(i)))) + 1))

\* the escape of a character inside a JSON string
Escape(c) == IF c = "\n" THEN <<"\\", "n">> ELSE <<c>>

\* the text of the JSON3 document with the given events, each event the
\* list of the utf8 strings of its segs
Marshal(events) ==
    LET str(u) == <<"\"">> \o Flatten([i \in 1..Len(u) |-> Escape(u[i])]) \o <<"\"">>
        seg(u) == <<"{", "\"", "u", "t", "f", "8", "\"", ":">> \o str(u) \o <<"}">>
        event(e) == <<"{", "\"", "s", "e", "g", "s", "\"", ":", "[">>
                    \o Join([i \in 1..Len(e) |-> seg(e[i])], <<",">>) \o <<"]", "}">>
    IN <<"{", "\"", "e", "v", "e", "n", "t", "s", "\"", ":", "[">>
       \o Join([i \in 1..Len(events) |-> event(events[i])], <<",">>) \o <<"]", "}">>

\* a caption payload that is a JSON3 document
JSONPayload(events) == [isJSON |-> TRUE, events |-> events, raw |-> Marshal(events)]

\* a caption payload that json.Unmarshal rejects
TextPayload(raw) == [isJSON |-> FALSE, events |-> <<>>, raw |-> raw]

\* ParseJSON3 writing every seg, the empty and the bare newline included
ParseJSON3_Unfiltered(data) ==
    IF ~data.isJSON THEN [text |-> <<>>, err |-> TRUE]
    ELSE LET segs == Flatten(data.events)
         IN [text |-> TrimSpace(Flatten([i \in 1..Len(segs) |-> segs[i] \o <<" ">>])),
             err |-> FALSE]

\* ParseJSON3: json.Unmarshal, then every seg that is neither "" nor "\n"
\* followed by a space
ParseJSON3(data) ==
    IF ~data.isJSON THEN [text |-> <<>>, err |-> TRUE]
    ELSE LET segs == Flatten(data.events)
             kept == SelectSeq(segs, LAMBDA u : u # <<>> /\ u # <<"\n">>)
         IN [text |-> TrimSpace(Flatten([i \in 1..Len(kept) |-> kept[i] \o <<" ">>])),
             err |-> FALSE]

\* ParseSRT dropping the sequence number only
ParseSRT_KeepTimes(data) ==
    LET blocks == Split(data.raw, <<"\n", "\n">>)
        piece(block) ==
            LET lines == Split(TrimSpace(block), <<"\n">>)
            IN IF Len(lines) >= 3
               THEN Join(SubSeq(lines, 2, Len(lines)), <<" ">>) \o <<" ">>
               ELSE <<>>
    IN [text |-> TrimSpace(Flatten([i \in 1..Len(blocks) |-> piece(blocks[i])])),
        err |-> FALSE]

\* ParseSRT: of every block of at least three lines, the lines after the
\* second
ParseSRT(data) ==
    LET blocks == Split(data.raw, <<"\n", "\n">>)
        piece(block) ==
            LET lines == Split(TrimSpace(block), <<"\n">>)
            IN IF Len(lines) >= 3
               THEN Join(SubSeq(lines, 3, Len(lines)), <<" ">>) \o <<" ">>
               ELSE <<>>
    IN [text |-> TrimSpace(Flatten([i \in 1..Len(blocks) |-> piece(blocks[i])])),
        err |-> FALSE]

\* ParseVTT: header, notes and style blocks removed; of every block, the
\* lines that are not blank and contain no "-->", without their tags
ParseVTT(data) ==
    LET content == RemoveStyles(RemoveNotes(RemoveHeader(data.raw)))
        blocks == Split(content, <<"\n", "\n">>)
        cue(line) ==
            IF ~Contains(line, Arrow) /\ TrimSpace(line) # <<>>
            THEN TrimSpace(RemoveTags(line)) \o <<" ">>
            ELSE <<>>
        piece(block) ==
            LET lines == Split(TrimSpace(block), <<"\n">>)
            IN Flatten([i \in 1..Len(lines) |-> cue(lines[i])])
    IN [text |-> TrimSpace(Flatten([i \in 1..Len(blocks) |-> piece(blocks[i])])),
        err |-> FALSE]

\* CleanTranscript
CleanTranscript(text) ==
    TrimSpace(RemoveAll(RemoveAll(RemoveAll(CollapseSpace(text), Music),
                                  Applause), Laughter))

(***************************************************************************)
(* pkg/youtube: the caption track of the metadata document.  A decoded     *)
(* JSON value is modelled by what the type assertions of the code make of  *)
(* it: isMap / enIsList / extIsString / urlIsString are the `ok` results   *)
(* (FALSE for a missing key and for a value of another type).              *)
(***************************************************************************)
\* an element of an "en" list
SubInfo(isMap, extIsString, ext, urlIsString, url) ==
    [isMap |-> isMap, extIsString |-> extIsString, ext |-> ext,
     urlIsString |-> urlIsString, url |-> url]

\* the value under "automatic_captions" or "subtitles"
SubsData(isMap, enIsList, en) == [isMap |-> isMap, enIsList |-> enIsList, en |-> en]

\* formatPreference := []string{"json3", "vtt", "srv3", "srv2", "srv1"}
formatPreference == <<"json3", "vtt", "srv3", "srv2", "srv1">>

\* the descriptor ("", "")
NoSubtitle == [url |-> "", format |-> ""]

\* the nested loops of extractSubtitleURL reading the formats in reverse
ScanFormats_Reversed(enSubs, prefs) ==
    LET hits(f) == {i \in 1..Len(enSubs) :
                       /\ enSubs[i].isMap
                       /\ enSubs[i].extIsString /\ enSubs[i].ext = f
                       /\ enSubs[i].urlIsString}
        ks == {k \in 1..Len(prefs) : hits(prefs[k]) # {}}
    IN IF ks = {} THEN [found |-> FALSE, url |-> "", format |-> ""]
       ELSE [found |-> TRUE, url |-> enSubs[Min(hits(prefs[Max(ks)]))].url,
             format |-> prefs[Max(ks)]]

\* the nested loops of extractSubtitleURL: for every format in order of
\* preference, the first element with that ext and a string url is returned
RECURSIVE ScanFormats(_, _)
ScanFormats(enSubs, prefs) ==
    IF Len(prefs) = 0 THEN [found |-> FALSE, url |-> "", format |-> ""]
    ELSE LET hits == {i \in 1..Len(enSubs) :
                         /\ enSubs[i].isMap
                         /\ enSubs[i].extIsString /\ enSubs[i].ext = Head(prefs)
                         /\ enSubs[i].urlIsString}
         IN IF hits # {}
            THEN [found |-> TRUE, url |-> enSubs[Min(hits)].url, format |-> Head(prefs)]
            ELSE ScanFormats(enSubs, Tail(prefs))

\* extractSubtitleURL
extractSubtitleURL(subsData, prefs) ==
    IF subsData.enIsList /\ Len(subsData.en) > 0
    THEN LET r == ScanFormats(subsData.en, prefs)
             first == subsData.en[1]
         IN IF r.found THEN [url |-> r.url, format |-> r.format]
            ELSE IF first.isMap /\ first.urlIsString
            THEN [url |-> first.url,
                  format |-> IF first.extIsString THEN first.ext ELSE "unknown"]
            ELSE NoSubtitle
    ELSE NoSubtitle

\* findBestSubtitleURL falling back to a default track when it finds none
findBestSubtitleURL_Default(videoData) ==
    LET auto == extractSubtitleURL(videoData.automatic_captions, formatPreference)
        subs == extractSubtitleURL(videoData.subtitles, formatPreference)
    IN IF videoData.automatic_captions.isMap /\ auto.url # "" THEN auto
       ELSE IF videoData.subtitles.isMap /\ subs.url # "" THEN subs
       ELSE [url |-> "https://caption/default", format |-> "vtt"]

\* findBestSubtitleURL consulting the manual subtitles first
findBestSubtitleURL_ManualFirst(videoData) ==
    LET auto == extractSubtitleURL(videoData.automatic_captions, formatPreference)
        subs == extractSubtitleURL(videoData.subtitles, formatPreference)
    IN IF videoData.subtitles.isMap /\ subs.url # "" THEN subs
       ELSE IF videoData.automatic_captions.isMap /\ auto.url # "" THEN auto
       ELSE NoSubtitle

\* findBestSubtitleURL: automatic_captions first, then subtitles
findBestSubtitleURL(videoData) ==
    LET auto == extractSubtitleURL(videoData.automatic_captions, formatPreference)
        subs == extractSubtitleURL(videoData.subtitles, formatPreference)
    IN IF videoData.automatic_captions.isMap /\ auto.url # "" THEN auto
       ELSE IF videoData.subtitles.isMap /\ subs.url # "" THEN subs
       ELSE NoSubtitle

(***************************************************************************)
(* pkg/youtube: what the collaborators of GetTranscript may answer.        *)
(***************************************************************************)
\* longest "en" list of a caption collection
MaxSubs == 2
\* most segs of a JSON3 document
MaxSegs == 3
\* most fragments a caption text is put together from
MaxFragments == 4

\* a metadata document without caption collections
NoVideoData ==
    [automatic_captions |-> SubsData(FALSE, FALSE, <<>>),
     subtitles |-> SubsData(FALSE, FALSE, <<>>)]

\* a well-formed element of an "en" list
Track(ext) == SubInfo(TRUE, TRUE, ext, TRUE, "https://caption/" \o ext)

\* the elements of "en" lists: tracks of the five ranked formats and of an
\* unranked one, an element whose url is not a string, one whose ext is
\* not a string, and one that is not an object
SubInfos ==
    {Track(f) : f \in {"json3", "vtt", "srv3", "srv2", "srv1", "ttml"}}
    \cup {SubInfo(TRUE, TRUE, "json3", FALSE, ""),
          SubInfo(TRUE, FALSE, "", TRUE, "https://caption/noext"),
          SubInfo(FALSE, FALSE, "", FALSE, "")}

\* caption collections: absent or not an object, without an "en" list, and
\* with every "en" list up to MaxSubs
Collections ==
    {SubsData(FALSE, FALSE, <<>>), SubsData(TRUE, FALSE, <<>>)}
    \cup {SubsData(TRUE, TRUE, en) : en \in SeqsUpTo(SubInfos, MaxSubs)}

FewCollections ==
    {SubsData(FALSE, FALSE, <<>>), SubsData(TRUE, FALSE, <<>>),
     SubsData(TRUE, TRUE, <<>>), SubsData(TRUE, TRUE, <<Track("srv1")>>)}

VideoDatas ==
    {[automatic_captions |-> a, subtitles |-> s] :
        a \in Collections, s \in FewCollections}
    \cup {[automatic_captions |-> a, subtitles |-> s] :
        a \in FewCollections, s \in Collections}

\* what the yt-dlp invocation answers: a failure naming a private video,
\* another failure, output that is not JSON, or a metadata document
YtDlp(kind, vd) == [kind |-> kind, videoData |-> vd]

NoYtDlp == YtDlp("failed", NoVideoData)

YtDlpOutputs ==
    {YtDlp(k, NoVideoData) : k \in {"private", "failed", "badjson"}}
    \cup {YtDlp("json", vd) : vd \in VideoDatas}

\* one document per way GetTranscript decodes
FewYtDlpOutputs ==
    {YtDlp("json", [automatic_captions |-> SubsData(TRUE, TRUE, <<Track(f)>>),
                    subtitles |-> SubsData(FALSE, FALSE, <<>>)]) :
        f \in {"json3", "vtt", "srv3", "ttml"}}

\* the utf8 strings of segs
SegTexts == {<<>>, <<"\n">>, <<"a">>, <<" ", "a">>, Music, <<"<", "c", ">">>}

\* the fragments of caption texts: a cue number line, a timing line, a
\* word, a space, a line break, a noise token, a tag
Fragments ==
    {<<"1", "\n">>, Arrow \o <<"\n">>, <<"a">>, <<" ">>, <<"\n">>, Music,
     <<"<", "c", ">">>}

\* JSON3 documents: the segs in one event, or one event for every seg
JSONDocuments ==
    {<<segs>> : segs \in SeqsUpTo(SegTexts, MaxSegs)}
    \cup {[i \in 1..Len(segs) |-> <<segs[i]>>] : segs \in SeqsUpTo(SegTexts, MaxSegs)}

Payloads ==
    {JSONPayload(es) : es \in JSONDocuments}
    \cup {TextPayload(Flatten(fs)) : fs \in SeqsUpTo(Fragments, MaxFragments)}

\* most blocks of a SubRip document
MaxBlocks == 3

\* the blocks of SubRip documents: a cue of one text line, a cue of two,
\* a cue without text, and a lone line
SRTBlocks ==
    {<<"1", "\n">> \o Arrow \o <<"\n", "a">>,
     <<"2", "\n">> \o Arrow \o <<"\n", "b", "\n", "c">>,
     <<"3", "\n">> \o Arrow,
     <<"d">>}

\* what stands between two blocks: one blank line, two, or a line break only
SRTSeparators == {<<"\n", "\n">>, <<"\n", "\n", "\n">>, <<"\n">>}

\* the SubRip documents of n blocks
RECURSIVE SRTDocuments(_)
SRTDocuments(n) ==
    IF n = 1 THEN SRTBlocks
    ELSE {d \o sep \o b : d \in SRTDocuments(n - 1), sep \in SRTSeparators, b \in SRTBlocks}

SRTPayloads == {TextPayload(d) : d \in UNION {SRTDocuments(n) : n \in 1..MaxBlocks}}

\* what the caption endpoint answers: a transport error, a status other
\* than 200, a body that cannot be read, or a payload
Served(kind, data) == [kind |-> kind, data |-> data]

NoServed == Served("requestError", TextPayload(<<>>))

ServedReplies ==
    {Served(k, TextPayload(<<>>)) : k \in {"requestError", "status", "readError"}}
    \cup {Served("ok", data) : data \in Payloads}

FewServedReplies ==
    {Served(k, TextPayload(<<>>)) : k \in {"requestError", "status", "readError"}}
    \cup {Served("ok", TextPayload(<<"a">>))}

\* a nil *Transcript, and the error returned with it
NoTranscript == [nonNil |-> FALSE, text |-> <<>>, err |-> ""]

\* what the yt-dlp invocation of GetVideoMetadata answers: the failures of
\* YtDlp, or a document whose "title" is a string or not
MetadataOutput(kind, titleIsString, title) ==
    [kind |-> kind, titleIsString |-> titleIsString, title |-> title]

MetadataOutputs ==
    {MetadataOutput(k, FALSE, "") : k \in {"private", "failed", "badjson"}}
    \cup {MetadataOutput("json", TRUE, "video title"), MetadataOutput("json", FALSE, "")}

\* return nil, err
MetadataError(err) == [nonNil |-> FALSE, title |-> "", err |-> err]

\* return metadata, nil
Metadata(title) == [nonNil |-> TRUE, title |-> title, err |-> ""]

NoMetadata == MetadataError("")

\* GetVideoMetadata after the validation: the yt-dlp invocation, the
\* decoding of its output and the type assertion on "title"
MetadataOf(out) ==
    CASE out.kind = "private" -> MetadataError("ErrVideoPrivate")
      [] out.kind = "failed" -> MetadataError("ErrCommandFailed")
      [] out.kind = "badjson" -> MetadataError("failed to parse video metadata")
      [] OTHER -> Metadata(IF out.titleIsString THEN out.title ELSE "")

\* (*VideoInfo, error): cause is the error wrapped by err
VideoInfo(nonNil, m, t, err, cause) ==
    [nonNil |-> nonNil, Metadata |-> m, Transcript |-> t, err |-> err, cause |-> cause]

NoInfo == VideoInfo(FALSE, NoMetadata, NoTranscript, "", "")

\* GetVideoInfo dropping the metadata when the transcript fails
VideoInfoOf_AllOrNothing(m, t) ==
    IF ~t.nonNil THEN VideoInfo(FALSE, NoMetadata, NoTranscript, t.err, "")
    ELSE VideoInfo(TRUE, m, t, "", "")

\* GetVideoInfo after a successful GetVideoMetadata, from what
\* GetTranscript returned
VideoInfoOf(m, t) ==
    IF ~t.nonNil
    THEN VideoInfo(TRUE, m, NoTranscript, "got metadata but transcript failed", t.err)
    ELSE VideoInfo(TRUE, m, t, "", "")

(***************************************************************************)
(* internal/db: the store.  Each table is the sequence of its committed    *)
(* rows in insertion order; seq holds the SERIAL sequences, which are not  *)
(* rolled back; clock stamps created_at (one value per transaction).       *)
(***************************************************************************)
EmptyDB ==
    [sources |-> <<>>, concepts |-> <<>>, quizzes |-> <<>>, contents |-> <<>>,
     seq |-> [sources |-> 0, concepts |-> 0, quizzes |-> 0, contents |-> 0],
     clock |-> 0]

\* the store as an earlier complete run for ProcessedURL left it
SeededDB ==
    [sources |-> <<[id |-> 1, url |-> ProcessedURL, title |-> "video title",
                    transcript |-> "transcript text"]>>,
     concepts |-> <<[id |-> 1, title |-> "t1", sourceContentId |-> 1,
                     createdAt |-> 2]>>,
     quizzes |-> <<[id |-> 1, conceptId |-> 1, question |-> "question text",
                    correctAnswer |-> "B", createdAt |-> 3]>>,
     contents |-> <<[id |-> 1, platform |-> "linkedin", title |-> "generated title",
                     body |-> "generated body", conceptIds |-> <<1>>,
                     status |-> "draft", createdAt |-> 4]>>,
     seq |-> [sources |-> 1, concepts |-> 1, quizzes |-> 1, contents |-> 1],
     clock |-> 4]

\* faults a database call may suffer besides constraint violations
NoFault == -1

\* where a batch of n rows fails: 0 = Begin, j in 1..n = the insert of row
\* j, n+1 = Commit, NoFault = nowhere.  bad = rows violating a constraint.
FailPoint(n, bad, fault) ==
    IF fault = 0 THEN 0
    ELSE LET failing == bad \cup (IF fault \in 1..n THEN {fault} ELSE {})
         IN IF failing # {} THEN Min(failing)
            ELSE IF fault = n + 1 THEN n + 1
            ELSE NoFault

\* the faults drawn for a batch of n rows
BatchFaults(n) == {NoFault} \cup 0..(n + 1)

\* ids drawn from a sequence by a batch that stopped at fail point fp
Consumed(n, fp) == IF fp = NoFault \/ fp = n + 1 THEN n ELSE fp

\* every row written as soon as it is inserted, outside any transaction
Persisted_Autocommit(created, fp) ==
    IF fp = NoFault \/ fp = Len(created) + 1 THEN created
    ELSE SubSeq(created, 1, fp - 1)

\* the rows of a batch transaction that are in the table once the function
\* has returned: all of them after tx.Commit (the deferred tx.Rollback then
\* finds the transaction done and changes nothing), none when the function
\* returned early and the deferred tx.Rollback ran
Persisted(created, fp) == IF fp = NoFault THEN created ELSE <<>>

\* the INSERT written over the newest row of the table
CreateSourceContent_Overwrite(d, req, fault) ==
    LET row == [id |-> d.seq.sources + 1, url |-> req.url,
                title |-> req.title, transcript |-> req.transcript]
    IN [db |-> [d EXCEPT !.sources = [@ EXCEPT ![Len(@)] = row],
                         !.seq.sources = @ + 1,
                         !.clock = @ + 1],
        row |-> row, err |-> FALSE]

\* the INSERT under a UNIQUE constraint on url
CreateSourceContent_Unique(d, req, fault) ==
    IF fault # NoFault \/ \E i \in 1..Len(d.sources) : d.sources[i].url = req.url
    THEN [db |-> d, row |-> NoSource, err |-> TRUE]
    ELSE LET row == [id |-> d.seq.sources + 1, url |-> req.url,
                     title |-> req.title, transcript |-> req.transcript]
         IN [db |-> [d EXCEPT !.sources = Append(@, row),
                              !.seq.sources = @ + 1,
                              !.clock = @ + 1],
             row |-> row, err |-> FALSE]

\* CreateSourceContent: one INSERT ... RETURNING
CreateSourceContent(d, req, fault) ==
    IF fault # NoFault
    THEN [db |-> d, row |-> NoSource, err |-> TRUE]
    ELSE LET row == [id |-> d.seq.sources + 1, url |-> req.url,
                     title |-> req.title, transcript |-> req.transcript]
         IN [db |-> [d EXCEPT !.sources = Append(@, row),
                              !.seq.sources = @ + 1,
                              !.clock = @ + 1],
             row |-> row, err |-> FALSE]

\* GetSourceContentByURL with the comparison of its WHERE clause inverted
GetSourceContentByURL_Inverted(d, url) ==
    {d.sources[i] : i \in {j \in 1..Len(d.sources) : d.sources[j].url # url}}

\* GetSourceContentByURL: the rows QueryRow may scan (first row of an
\* unordered SELECT ... WHERE url = $1); empty = sql.ErrNoRows
GetSourceContentByURL(d, url) ==
    {d.sources[i] : i \in {j \in 1..Len(d.sources) : d.sources[j].url = url}}

\* CreateConceptsBatch: all rows in one transaction
CreateConceptsBatch(d, concepts, fault) ==
    IF Len(concepts) = 0 THEN [db |-> d, rows |-> <<>>, err |-> FALSE]
    ELSE LET n == Len(concepts)
             \* source_content_id REFERENCES source_contents(id)
             bad == {i \in 1..n :
                        \A j \in 1..Len(d.sources) :
                            d.sources[j].id # concepts[i].sourceContentId}
             fp == FailPoint(n, bad, fault)
             created == [i \in 1..n |->
                            [id |-> d.seq.concepts + i,
                             title |-> concepts[i].title,
                             sourceContentId |-> concepts[i].sourceContentId,
                             createdAt |-> d.clock + 1]]
             d1 == [d EXCEPT !.seq.concepts = @ + Consumed(n, fp),
                             !.clock = @ + 1]
             d2 == [d1 EXCEPT !.concepts = @ \o Persisted(created, fp)]
         IN IF fp # NoFault
            THEN [db |-> d2, rows |-> <<>>, err |-> TRUE]
            ELSE [db |-> d2, rows |-> created, err |-> FALSE]

\* a quiz_questions table without the CHECK on correct_answer
CorrectAnswerCheck_Any(a) == TRUE

\* CHECK (correct_answer IN ('A', 'B', 'C', 'D'))
CorrectAnswerCheck(a) == a \in {"A", "B", "C", "D"}

\* CreateQuizBatch whose failure also removes the concepts table's rows
CreateQuizBatch_Cascading(d, questions, fault) ==
    IF Len(questions) = 0 THEN [db |-> d, rows |-> <<>>, err |-> FALSE]
    ELSE LET n == Len(questions)
             bad == {i \in 1..n :
                        \/ ~CorrectAnswerCheck(questions[i].correctAnswer)
                        \/ \A j \in 1..Len(d.concepts) :
                               d.concepts[j].id # questions[i].conceptId}
             fp == FailPoint(n, bad, fault)
             created == [i \in 1..n |->
                            [id |-> d.seq.quizzes + i,
                             conceptId |-> questions[i].conceptId,
                             question |-> questions[i].question,
                             correctAnswer |-> questions[i].correctAnswer,
                             createdAt |-> d.clock + 1]]
             d1 == [d EXCEPT !.seq.quizzes = @ + Consumed(n, fp),
                             !.clock = @ + 1]
         IN IF fp # NoFault
            THEN [db |-> [d1 EXCEPT !.concepts = <<>>], rows |-> <<>>, err |-> TRUE]
            ELSE [db |-> [d1 EXCEPT !.quizzes = @ \o created], rows |-> created,
                  err |-> FALSE]

\* CreateQuizBatch: all rows in one transaction
CreateQuizBatch(d, questions, fault) ==
    IF Len(questions) = 0 THEN [db |-> d, rows |-> <<>>, err |-> FALSE]
    ELSE LET n == Len(questions)
             \* concept_id REFERENCES concepts(id), CHECK on correct_answer
             bad == {i \in 1..n :
                        \/ ~CorrectAnswerCheck(questions[i].correctAnswer)
                        \/ \A j \in 1..Len(d.concepts) :
                               d.concepts[j].id # questions[i].conceptId}
             fp == FailPoint(n, bad, fault)
             created == [i \in 1..n |->
                            [id |-> d.seq.quizzes + i,
                             conceptId |-> questions[i].conceptId,
                             question |-> questions[i].question,
                             correctAnswer |-> questions[i].correctAnswer,
                             createdAt |-> d.clock + 1]]
             d1 == [d EXCEPT !.seq.quizzes = @ + Consumed(n, fp),
                             !.clock = @ + 1]
             d2 == [d1 EXCEPT !.quizzes = @ \o Persisted(created, fp)]
         IN IF fp # NoFault
            THEN [db |-> d2, rows |-> <<>>, err |-> TRUE]
            ELSE [db |-> d2, rows |-> created, err |-> FALSE]

\* CHECK (platform IN ('linkedin', 'twitter', 'blog', 'email'))
PlatformCheck(p) == p \in {"linkedin", "twitter", "blog", "email"}

\* CreateGeneratedContentBatch: all rows in one transaction
CreateGeneratedContentBatch(d, contents, fault) ==
    IF Len(contents) = 0 THEN [db |-> d, rows |-> <<>>, err |-> FALSE]
    ELSE LET n == Len(contents)
             bad == {i \in 1..n : ~PlatformCheck(contents[i].platform)}
             fp == FailPoint(n, bad, fault)
             created == [i \in 1..n |->
                            [id |-> d.seq.contents + i,
                             platform |-> contents[i].platform,
                             title |-> contents[i].title,
                             body |-> contents[i].body,
                             conceptIds |-> contents[i].conceptIds,
                             status |-> contents[i].status,
                             createdAt |-> d.clock + 1]]
             d1 == [d EXCEPT !.seq.contents = @ + Consumed(n, fp),
                             !.clock = @ + 1]
             d2 == [d1 EXCEPT !.contents = @ \o Persisted(created, fp)]
         IN IF fp # NoFault
            THEN [db |-> d2, rows |-> <<>>, err |-> TRUE]
            ELSE [db |-> d2, rows |-> created, err |-> FALSE]

\* GetConceptsBySourceContentID: the result lists the query may return
\* (WHERE source_content_id = $1 ORDER BY created_at DESC)
GetConceptsBySourceContentID(d, sourceContentID) ==
    Orderings({c \in Range(d.concepts) : c.sourceContentId = sourceContentID},
              "DESC")

\* GetQuizzesBySourceContentID: the result lists the query may return
\* (INNER JOIN concepts, WHERE c.source_content_id = $1,
\*  ORDER BY q.created_at ASC)
GetQuizzesBySourceContentID(d, sourceContentID) ==
    Orderings({q \in Range(d.quizzes) :
                 \E c \in Range(d.concepts) :
                     /\ c.id = q.conceptId
                     /\ c.sourceContentId = sourceContentID},
              "ASC")

\* the in-memory filter of GetGeneratedContentByConceptIDs applied to one
\* scanned row: the row is appended once per query id found in its
\* concept_ids (the break leaves the inner loop only)
RECURSIVE FilterRow(_, _)
FilterRow(gc, conceptIDs) ==
    IF Len(conceptIDs) = 0 THEN <<>>
    ELSE (IF Head(conceptIDs) \in Range(gc.conceptIds) THEN <<gc>> ELSE <<>>)
         \o FilterRow(gc, Tail(conceptIDs))

\* GetGeneratedContentByConceptIDs: the result lists the call may return
\* (all rows ORDER BY created_at DESC, filtered in memory).  Rows the filter
\* drops do not affect the order of the others, so only matching rows are
\* ordered.
GetGeneratedContentByConceptIDs(d, conceptIDs) ==
    LET matching == {gc \in Range(d.contents) : FilterRow(gc, conceptIDs) # <<>>}
    IN {Flatten([i \in 1..Len(o) |-> FilterRow(o[i], conceptIDs)]) :
            o \in Orderings(matching, "DESC")}

(***************************************************************************)
(* internal/services: ClaudeService.  A derivation reply is what           *)
(* SendMessageWithSystem and ParseJSONResponse make of the service's       *)
(* answer: kind "error" (the client failed), "unparsable" (text that is    *)
(* not the expected JSON) or "json" (data = the parsed array).             *)
(***************************************************************************)
ConceptReplies ==
    {[kind |-> "error", data |-> <<>>], [kind |-> "unparsable", data |-> <<>>]}
    \cup {[kind |-> "json", data |-> [i \in 1..k |-> Title(i)]] : k \in 0..MaxConcepts}

QuizReplies ==
    {[kind |-> "error", data |-> <<>>], [kind |-> "unparsable", data |-> <<>>]}
    \cup {[kind |-> "json", data |-> as] : as \in SeqsUpTo(RawAnswers, MaxQuestions)}

\* for the content prompt data is the text of the reply when it is not JSON
ContentReplies ==
    {[kind |-> "error", data |-> <<>>],
     [kind |-> "unparsable", data |-> <<"raw reply text">>],
     [kind |-> "json", data |-> <<>>]}

\* strings.ToUpper on the answer letters
ToUpper(s) ==
    CASE s = "a" -> "A" [] s = "b" -> "B" [] s = "c" -> "C"
      [] s = "d" -> "D" [] s = "e" -> "E" [] OTHER -> s

\* ExtractConcepts: one derivation call, every parsed element becomes a
\* Concept pointing at sourceContentID
ExtractConcepts(reply, sourceContentID) ==
    IF reply.kind # "json" THEN [concepts |-> <<>>, err |-> TRUE]
    ELSE [concepts |-> [i \in 1..Len(reply.data) |->
                           [id |-> 0, title |-> reply.data[i],
                            sourceContentId |-> sourceContentID, createdAt |-> 0]],
          err |-> FALSE]

\* GenerateQuiz: one derivation call, every parsed element becomes a
\* QuizQuestion of the concept with its answer upper-cased
GenerateQuiz(reply, concept) ==
    IF reply.kind # "json" THEN [questions |-> <<>>, err |-> TRUE]
    ELSE [questions |-> [i \in 1..Len(reply.data) |->
                            [id |-> 0, conceptId |-> concept.id,
                             question |-> "question text",
                             correctAnswer |-> ToUpper(reply.data[i]),
                             createdAt |-> 0]],
          err |-> FALSE]

\* generateTitleFromConcepts
generateTitleFromConcepts(concepts) ==
    IF Len(concepts) = 0 THEN "Generated Content"
    ELSE IF Len(concepts) = 1 THEN concepts[1].title
    ELSE concepts[1].title \o " and More"

\* GenerateContent failing when the reply is not JSON
GenerateContent_Strict(reply, platform, concepts) ==
    IF reply.kind # "json" THEN [content |-> <<>>, err |-> TRUE]
    ELSE [content |-> <<[id |-> 0, platform |-> platform, title |-> "generated title",
                         body |-> "generated body",
                         conceptIds |-> [i \in 1..Len(concepts) |-> concepts[i].id],
                         status |-> "draft", createdAt |-> 0]>>,
          err |-> FALSE]

\* GenerateContent: one derivation call; an unparsable reply becomes the
\* body, with a title synthesized from the concepts
GenerateContent(reply, platform, concepts) ==
    IF reply.kind = "error" THEN [content |-> <<>>, err |-> TRUE]
    ELSE LET title == IF reply.kind = "json" THEN "generated title"
                      ELSE generateTitleFromConcepts(concepts)
             body == IF reply.kind = "json" THEN "generated body"
                     ELSE reply.data[1]
         IN [content |-> <<[id |-> 0, platform |-> platform, title |-> title,
                            body |-> body,
                            conceptIds |-> [i \in 1..Len(concepts) |-> concepts[i].id],
                            status |-> "draft", createdAt |-> 0]>>,
             err |-> FALSE]

\* platforms := []string{"linkedin", "twitter", "blog"}
platforms == <<"linkedin", "twitter", "blog">>

(***************************************************************************)
(* pkg/claude: Client.SendMessage and what the API may answer.             *)
(***************************************************************************)
\* maxRetries := 3
maxRetries == 3

\* DefaultMaxTokens
DefaultMaxTokens == 4096

\* DefaultModel, the model of a client made without CLAUDE_MODEL
DefaultModel == "claude-sonnet-4-5-20250929"

\* a response body: whether io.ReadAll succeeds, whether json.Unmarshal
\* accepts it, and what the fields read from it hold (content: the texts of
\* the content blocks, in order)
Body(readable, json, errorMessage, content, raw) ==
    [readable |-> readable, json |-> json, errorMessage |-> errorMessage,
     content |-> content, raw |-> raw]

NoBody == Body(TRUE, FALSE, "", <<>>, "")

\* a body that cannot be read, one that is not JSON, an error envelope, an
\* object with neither error nor content, and messages with one or two
\* content blocks whose first text is empty or not
Bodies ==
    {Body(FALSE, FALSE, "", <<>>, ""),
     Body(TRUE, FALSE, "", <<>>, "<html>"),
     Body(TRUE, TRUE, "overloaded", <<>>, "{error}"),
     Body(TRUE, TRUE, "", <<>>, "{}"),
     Body(TRUE, TRUE, "", <<"">>, "{message}"),
     Body(TRUE, TRUE, "", <<"reply text">>, "{message}"),
     Body(TRUE, TRUE, "", <<"", "more">>, "{message}"),
     Body(TRUE, TRUE, "", <<"reply text", "more">>, "{message}")}

\* what httpClient.Do returns: an error, or a response
DoResult(failed, status, body) == [failed |-> failed, status |-> status, body |-> body]

NoResponse == DoResult(TRUE, 0, NoBody)

DoResults ==
    {NoResponse, DoResult(FALSE, 429, NoBody)}
    \cup {DoResult(FALSE, st, b) : st \in {200, 400, 500}, b \in Bodies}

\* the requests callers pass: with and without a model and a token limit
MessageRequests == [Model : {"", "claude-x"}, MaxTokens : {0, 100}]

\* (*MessageResponse, error): err is the sentinel or the message of the
\* error, detail what it carries (the texts of the content blocks for a
\* response)
SendResult(nonNil, err, detail) == [nonNil |-> nonNil, err |-> err, detail |-> detail]

\* a retry after every response other than 200
Retryable_AnyError(r) == r.failed \/ r.status # 200

\* the attempt is followed by another one: err != nil, or status 429
Retryable(r) == r.failed \/ r.status = 429

\* a sleep that does not grow with the attempt
Backoff_Constant(r, attempt) == IF r.failed THEN 2 ELSE 10

\* the sleep before the next attempt, in seconds
Backoff(r, attempt) == IF r.failed THEN (attempt + 1) * 2 ELSE (attempt + 1) * 10

\* the error of the last attempt
Exhausted(r) ==
    IF r.failed THEN SendResult(FALSE, "ErrTimeout", <<>>)
    ELSE SendResult(FALSE, "ErrRateLimitExceeded", <<>>)

\* the error of a status other than 200 without what the API sent
APIError_Bare(r) == SendResult(FALSE, "ErrAPIError", <<>>)

\* the error of a status other than 200: the message of the envelope, or
\* the status and the raw body when the envelope does not parse
APIError(r) ==
    IF r.body.json THEN SendResult(FALSE, "ErrAPIError", <<r.body.errorMessage>>)
    ELSE SendResult(FALSE, "ErrAPIError", <<ToString(r.status), r.body.raw>>)

\* len(msgResp.Content) == 0 || msgResp.Content[0].Text == ""
IsEmpty(content) == Len(content) = 0 \/ content[1] = ""

\* the same without the test for an empty response
Answer_Unchecked(r) ==
    IF ~r.body.readable THEN SendResult(FALSE, "failed to read response", <<>>)
    ELSE IF r.status # 200 THEN APIError(r)
    ELSE IF ~r.body.json THEN SendResult(FALSE, "failed to parse response", <<>>)
    ELSE SendResult(TRUE, "", r.body.content)

\* what SendMessage returns for the response the loop was left with
Answer(r) ==
    IF ~r.body.readable THEN SendResult(FALSE, "failed to read response", <<>>)
    ELSE IF r.status # 200 THEN APIError(r)
    ELSE IF ~r.body.json THEN SendResult(FALSE, "failed to parse response", <<>>)
    ELSE IF IsEmpty(r.body.content) THEN SendResult(FALSE, "ErrEmptyResponse", <<>>)
    ELSE SendResult(TRUE, "", r.body.content)

\* (string, error) of SendMessageWithSystem
TextReply(t, err) == [text |-> t, err |-> err]

\* the MessageRequest SendMessageWithSystem builds
SystemRequest == [Model |-> DefaultModel, MaxTokens |-> DefaultMaxTokens]

\* what SendMessageWithSystem makes of what SendMessage returned
ReplyOf(res) ==
    IF ~res.nonNil THEN TextReply("", res.err)
    ELSE IF Len(res.detail) = 0 THEN TextReply("", "ErrEmptyResponse")
    ELSE TextReply(res.detail[1], "")

(***************************************************************************)
(* pkg/claude: ParseJSONResponse.  A reply is the sequence of its pieces:  *)
(* a fence of three backticks, the word json, a newline, a JSON document   *)
(* ({} or []) or a word that is not JSON; bytes.Contains and bytes.Index   *)
(* search it for the pieces of their pattern.                              *)
(***************************************************************************)
\* the piece standing for the three backticks
Fence == "fence"

\* the pattern of a fence followed by json
JSONFence == <<Fence, "json">>

\* the JSON documents of the replies
Documents == {"{}", "[]"}

\* longest reply, in pieces
MaxReply == 5

Replies == SeqsUpTo({Fence, "json", "\n", "text"} \cup Documents, MaxReply)

\* (value, error) of json.Unmarshal: the text is one JSON value with white
\* space around it, or the call fails
Unmarshal(t) ==
    LET vals == SelectSeq(t, LAMBDA piece : piece # "\n")
    IN IF Len(vals) = 1 /\ vals[1] \in Documents
       THEN [called |-> TRUE, err |-> FALSE, value |-> vals[1]]
       ELSE [called |-> TRUE, err |-> TRUE, value |-> ""]

NoParse == [called |-> FALSE, err |-> FALSE, value |-> ""]

\* text[start : start+end] with end := bytes.Index(text[start:], fence),
\* or the whole reply when end is -1; rest is text[start:]
UpToFence(whole, rest) ==
    IF Contains(rest, <<Fence>>)
    THEN SubSeq(rest, 1, Min(Occurrences(rest, <<Fence>>)) - 1)
    ELSE whole

\* the text ParseJSONResponse hands to json.Unmarshal
FencedText(responseText) ==
    IF Contains(responseText, JSONFence)
    THEN UpToFence(responseText,
                   Drop(responseText, Min(Occurrences(responseText, JSONFence)) + 1))
    ELSE IF Contains(responseText, <<Fence>>)
    THEN LET rest == Drop(responseText, Min(Occurrences(responseText, <<Fence>>)))
         IN IF Contains(rest, <<"\n">>)
            THEN UpToFence(responseText, Drop(rest, Min(Occurrences(rest, <<"\n">>))))
            ELSE UpToFence(responseText, rest)
    ELSE responseText

\* ParseJSONResponse
ParseJSONResponse(responseText) == Unmarshal(FencedText(responseText))

(***************************************************************************)
(* State.                                                                  *)
(***************************************************************************)
VARIABLES
    db,                \* the relational store shared by all runs
    calls,             \* number of ProcessYouTubeURL calls issued so far
    pc,                \* pc[p]: where run p stands in ProcessYouTubeURL
    url,               \* url[p]: the argument of the run
    sourceContent,     \* the Go locals of ProcessYouTubeURL ...
    videoInfo,
    concepts,
    savedConcepts,
    allQuizzes,
    generatedContents,
    idx,               \* position of the running range loop
    result,            \* result[p]: what the run returned (pc[p] = "done")
    log,               \* log[p]: the external calls of the run, in order
    dbAtCall           \* dbAtCall[p]: the store when the run was called

\* pkg/youtube: one call of Client.GetTranscript, or of a method of the
\* SubtitleParser
VARIABLES
    tpc,               \* where the call stands
    videoURL,          \* the argument of GetTranscript
    ytdlp,             \* what the yt-dlp invocation will answer
    served,            \* what the caption endpoint will answer
    videoData,         \* the Go locals of GetTranscript ...
    subtitle,          \* (subtitleURL, subtitleFormat)
    subtitleData,
    text,
    transcript,        \* what GetTranscript returned (tpc = "done")
    external,          \* the tool invocations and HTTP fetches made, in order
    method,            \* the method of the Client the caller called
    vpc,               \* where that call stands
    metaOut,           \* what the yt-dlp invocation of GetVideoMetadata will answer
    metadata,          \* what GetVideoMetadata returned
    vinfo              \* what GetVideoInfo returned (vpc = "done")

\* pkg/claude: one call of Client.SendMessage, directly or by
\* Client.SendMessageWithSystem
VARIABLES
    entry,             \* the method the caller called
    ctxDone,           \* whether the caller has cancelled ctx
    textReply,         \* what SendMessageWithSystem returned (spc = "returned")
    spc,               \* where the call stands
    req,               \* the request
    attempt,           \* the counter of the retry loop
    resp,              \* what the last httpClient.Do returned
    wire,              \* what every httpClient.Do of the call returned, in order
    slept,             \* the sleeps of the call, in seconds, in order
    sendResult         \* what SendMessage returned (spc = "done")

\* pkg/claude: one call of ParseJSONResponse
VARIABLES
    responseText,      \* the argument
    parseResult        \* what the call made of it

pipelineVars ==
    <<db, calls, pc, url, sourceContent, videoInfo, concepts, savedConcepts,
      allQuizzes, generatedContents, idx, result, log, dbAtCall>>

infoVars == <<method, vpc, metaOut, metadata, vinfo>>

transcriptVars ==
    <<tpc, videoURL, ytdlp, served, videoData, subtitle, subtitleData, text,
      transcript, external, infoVars>>

vars == <<db, calls, pc, url, sourceContent, videoInfo, concepts, savedConcepts,
          allQuizzes, generatedContents, idx, result, log, dbAtCall,
          tpc, videoURL, ytdlp, served, videoData, subtitle, subtitleData, text,
          transcript, external, method, vpc, metaOut, metadata, vinfo,
          entry, ctxDone, textReply, spc, req, attempt, resp, wire,
          slept, sendResult, responseText, parseResult>>

replyVars == <<responseText, parseResult>>

clientVars ==
    <<entry, ctxDone, textReply, spc, req, attempt, resp, wire, slept,
      sendResult, replyVars>>

locals == <<sourceContent, videoInfo, concepts, savedConcepts, allQuizzes,
            generatedContents, idx>>

\* one entry of the call trace of a run
Call(name, arg, ok, ret) == [call |-> name, arg |-> arg, ok |-> ok, ret |-> ret]

\* no call of GetVideoInfo or GetVideoMetadata under way
InfoIdle ==
    /\ method = ""
    /\ vpc = "idle"
    /\ metaOut = MetadataOutput("failed", FALSE, "")
    /\ metadata = NoMetadata
    /\ vinfo = NoInfo

\* no call of GetTranscript or of the parser under way
TranscriptIdle ==
    /\ InfoIdle
    /\ external = <<>>
    /\ tpc = "idle"
    /\ videoURL = ""
    /\ ytdlp = NoYtDlp
    /\ served = NoServed
    /\ videoData = NoVideoData
    /\ subtitle = NoSubtitle
    /\ subtitleData = TextPayload(<<>>)
    /\ text = <<>>
    /\ transcript = NoTranscript

PipelineInit ==
    /\ db = SeededDB
    /\ calls = 0
    /\ pc = [p \in Procs |-> "idle"]
    /\ url = [p \in Procs |-> ""]
    /\ sourceContent = [p \in Procs |-> NoSource]
    /\ videoInfo = [p \in Procs |-> NoVideoInfo]
    /\ concepts = [p \in Procs |-> <<>>]
    /\ savedConcepts = [p \in Procs |-> <<>>]
    /\ allQuizzes = [p \in Procs |-> <<>>]
    /\ generatedContents = [p \in Procs |-> <<>>]
    /\ idx = [p \in Procs |-> 1]
    /\ result = [p \in Procs |-> NoResult]
    /\ log = [p \in Procs |-> <<>>]
    /\ dbAtCall = [p \in Procs |-> SeededDB]

\* no call of ParseJSONResponse under way
ReplyIdle ==
    /\ responseText = <<>>
    /\ parseResult = NoParse

\* no call of SendMessage under way
ClientIdle ==
    /\ ReplyIdle
    /\ entry = ""
    /\ ctxDone = FALSE
    /\ textReply = TextReply("", "")
    /\ spc = "idle"
    /\ req = [Model |-> "", MaxTokens |-> 0]
    /\ attempt = 0
    /\ resp = NoResponse
    /\ wire = <<>>
    /\ slept = <<>>
    /\ sendResult = SendResult(FALSE, "", <<>>)

Init ==
    /\ TranscriptIdle
    /\ ClientIdle
    /\ PipelineInit

\* return of ProcessYouTubeURL
Return(p, res) ==
    /\ result' = [result EXCEPT ![p] = res]
    /\ pc' = [pc EXCEPT ![p] = "done"]

ErrorResult(msg) == [NoResult EXCEPT !.err = msg]

\* &ProcessResult{...}, nil
ProcessResult(sc, cs, qs, gcs) ==
    [nonNil |-> TRUE, err |-> "", SourceContent |-> sc,
     Concepts |-> cs, Quizzes |-> qs, GeneratedContent |-> gcs]

(***************************************************************************)
(* ProcessYouTubeURL, one action per step.                                 *)
(***************************************************************************)
\* Step 1: the call and its duplicate check
CheckDuplicate(p, u) ==
    /\ pc[p] \in {"idle", "done"}
    /\ calls < MaxCalls
    /\ calls' = calls + 1
    /\ url' = [url EXCEPT ![p] = u]
    /\ dbAtCall' = [dbAtCall EXCEPT ![p] = db]
    /\ videoInfo' = [videoInfo EXCEPT ![p] = NoVideoInfo]
    /\ concepts' = [concepts EXCEPT ![p] = <<>>]
    /\ savedConcepts' = [savedConcepts EXCEPT ![p] = <<>>]
    /\ allQuizzes' = [allQuizzes EXCEPT ![p] = <<>>]
    /\ generatedContents' = [generatedContents EXCEPT ![p] = <<>>]
    /\ idx' = [idx EXCEPT ![p] = 1]
    /\ UNCHANGED db
    /\ \/ \* the lookup fails
          /\ log' = [log EXCEPT ![p] =
                        <<Call("db.GetSourceContentByURL", <<u>>, FALSE, <<>>)>>]
          /\ sourceContent' = [sourceContent EXCEPT ![p] = NoSource]
          /\ Return(p, ErrorResult("failed to check for duplicates"))
       \/ \* existing != nil
          \E existing \in GetSourceContentByURL(db, u) :
            /\ log' = [log EXCEPT ![p] =
                        <<Call("db.GetSourceContentByURL", <<u>>, TRUE, <<existing>>)>>]
            /\ sourceContent' = [sourceContent EXCEPT ![p] = existing]
            /\ pc' = [pc EXCEPT ![p] = "existing"]
            /\ result' = [result EXCEPT ![p] = NoResult]
       \/ \* sql.ErrNoRows
          /\ GetSourceContentByURL(db, u) = {}
          /\ log' = [log EXCEPT ![p] =
                        <<Call("db.GetSourceContentByURL", <<u>>, TRUE, <<>>)>>]
          /\ sourceContent' = [sourceContent EXCEPT ![p] = NoSource]
          /\ pc' = [pc EXCEPT ![p] = "fetch"]
          /\ result' = [result EXCEPT ![p] = NoResult]

\* getExistingProcessResult: three reads, each degrading to empty on error
getExistingProcessResult(p) ==
    /\ pc[p] = "existing"
    /\ \E f1, f2, f3 \in BOOLEAN :
       \E cs \in (IF f1 THEN {<<>>}
                  ELSE GetConceptsBySourceContentID(db, sourceContent[p].id)) :
       \E qs \in (IF f2 THEN {<<>>}
                  ELSE GetQuizzesBySourceContentID(db, sourceContent[p].id)) :
       LET conceptIDs == [i \in 1..Len(cs) |-> cs[i].id]
       IN \E gcs \in (IF Len(cs) = 0 \/ f3 THEN {<<>>}
                      ELSE GetGeneratedContentByConceptIDs(db, conceptIDs)) :
            /\ Len(cs) = 0 => ~f3
            /\ log' = [log EXCEPT ![p] = @ \o
                   <<Call("db.GetConceptsBySourceContentID", <<>>, ~f1, cs),
                     Call("db.GetQuizzesBySourceContentID", <<>>, ~f2, qs)>>
                   \o (IF Len(cs) > 0
                       THEN <<Call("db.GetGeneratedContentByConceptIDs",
                                   conceptIDs, ~f3, gcs)>>
                       ELSE <<>>)]
            /\ Return(p, ProcessResult(sourceContent[p], cs, qs, gcs))
    /\ UNCHANGED <<db, calls, url, locals, dbAtCall>>

\* Step 2: GetVideoInfo
FetchVideoInfo(p) ==
    /\ pc[p] = "fetch"
    /\ \E env \in VideoEnvs :
       LET info == GetVideoInfo(url[p], env)
       IN /\ log' = [log EXCEPT ![p] = @ \o
                        [i \in 1..Len(info.calls) |->
                            Call(info.calls[i], <<url[p]>>, TRUE, <<>>)]
                        \o <<Call("youtube.GetVideoInfo", <<url[p]>>, ~info.err,
                                  IF info.hasTranscript THEN <<info.text>> ELSE <<>>)>>]
          /\ IF info.err
             THEN /\ Return(p, ErrorResult("failed to fetch YouTube video"))
                  /\ UNCHANGED videoInfo
             ELSE IF ~info.hasTranscript
             THEN /\ Return(p, ErrorResult("no transcript available for this video"))
                  /\ UNCHANGED videoInfo
             ELSE /\ videoInfo' = [videoInfo EXCEPT ![p] =
                                      [title |-> info.title, text |-> info.text]]
                  /\ pc' = [pc EXCEPT ![p] = "saveSource"]
                  /\ UNCHANGED result
    /\ UNCHANGED <<db, calls, url, sourceContent, concepts, savedConcepts,
                   allQuizzes, generatedContents, idx, dbAtCall>>

\* the error of CreateSourceContent ignored
AfterSaveSource_Ignored(err) == "extract"

\* if err != nil { return nil, ... } after CreateSourceContent
AfterSaveSource(err) == IF err THEN "done" ELSE "extract"

\* Step 3: CreateSourceContent
SaveSourceContent(p) ==
    /\ pc[p] = "saveSource"
    /\ \E fault \in {NoFault, 0} :
       LET r == CreateSourceContent(db,
                    [url |-> url[p], title |-> videoInfo[p].title,
                     transcript |-> videoInfo[p].text], fault)
           next == AfterSaveSource(r.err)
       IN /\ db' = r.db
          /\ log' = [log EXCEPT ![p] =
                        Append(@, Call("db.CreateSourceContent", <<url[p]>>,
                                       ~r.err, <<r.row>>))]
          /\ sourceContent' = [sourceContent EXCEPT ![p] = r.row]
          /\ pc' = [pc EXCEPT ![p] = next]
          /\ result' = [result EXCEPT ![p] =
                IF next = "done" THEN ErrorResult("failed to save source content")
                ELSE @]
    /\ UNCHANGED <<calls, url, videoInfo, concepts, savedConcepts, allQuizzes,
                   generatedContents, idx, dbAtCall>>

\* the degraded outcomes reported as an error
DegradedResult_AsError(sc) == ErrorResult("failed to extract concepts")

\* the result returned when concept extraction or the concept insert
\* fails: the source content alone, and a nil error
DegradedResult(sc) == ProcessResult(sc, <<>>, <<>>, <<>>)

\* the error of ExtractConcepts logged but not returned on
AfterExtractConcepts_Continue(err) == "saveConcepts"

\* if err != nil { ...; return &ProcessResult{...}, nil } after ExtractConcepts
AfterExtractConcepts(err) == IF err THEN "done" ELSE "saveConcepts"

\* Step 4, first half: ExtractConcepts
ExtractConceptsStep(p) ==
    /\ pc[p] = "extract"
    /\ \E reply \in ConceptReplies :
       LET r == ExtractConcepts(reply, sourceContent[p].id)
           next == AfterExtractConcepts(r.err)
       IN /\ log' = [log EXCEPT ![p] =
                        Append(@, Call("claude.ExtractConcepts", <<reply.kind>>,
                                       ~r.err, r.concepts))]
          /\ concepts' = [concepts EXCEPT ![p] = r.concepts]
          /\ pc' = [pc EXCEPT ![p] = next]
          /\ result' = [result EXCEPT ![p] =
                IF next = "done" THEN DegradedResult(sourceContent[p]) ELSE @]
    /\ UNCHANGED <<db, calls, url, sourceContent, videoInfo, savedConcepts,
                   allQuizzes, generatedContents, idx, dbAtCall>>

\* the quiz stage left out: from the concept insert straight to the
\* platform loop
AfterSaveConcepts_SkipQuizzes(err, saved) == IF err THEN "done" ELSE "contentLoop"

\* if err != nil { ...; return &ProcessResult{...}, nil } after
\* CreateConceptsBatch; otherwise on to the range over savedConcepts, which
\* is left at once when there is nothing to range over
AfterSaveConcepts(err, saved) ==
    IF err THEN "done"
    ELSE IF Len(saved) = 0 THEN "saveQuizzes" ELSE "quizLoop"

\* Step 4, second half: CreateConceptsBatch
SaveConcepts(p) ==
    /\ pc[p] = "saveConcepts"
    /\ \E fault \in BatchFaults(Len(concepts[p])) :
       LET r == CreateConceptsBatch(db, concepts[p], fault)
           next == AfterSaveConcepts(r.err, r.rows)
       IN /\ db' = r.db
          /\ log' = [log EXCEPT ![p] =
                        Append(@, Call("db.CreateConceptsBatch", concepts[p],
                                       ~r.err, r.rows))]
          /\ savedConcepts' = [savedConcepts EXCEPT ![p] = r.rows]
          /\ pc' = [pc EXCEPT ![p] = next]
          /\ result' = [result EXCEPT ![p] =
                IF next = "done" THEN DegradedResult(sourceContent[p]) ELSE @]
    /\ idx' = [idx EXCEPT ![p] = 1]
    /\ UNCHANGED <<calls, url, sourceContent, videoInfo, concepts, allQuizzes,
                   generatedContents, dbAtCall>>

\* `break` instead of `continue` on a quiz generation error
AfterGenerateQuiz_Break(err, i, n) ==
    IF err \/ i >= n THEN "saveQuizzes" ELSE "quizLoop"

\* the quiz loop after iteration i of n: `continue` on an error, the next
\* concept otherwise, and out of the loop after the last one
AfterGenerateQuiz(err, i, n) == IF i >= n THEN "saveQuizzes" ELSE "quizLoop"

\* Step 5, one iteration of: for _, concept := range savedConcepts
GenerateQuizStep(p) ==
    /\ pc[p] = "quizLoop"
    /\ idx[p] <= Len(savedConcepts[p])
    /\ \E reply \in QuizReplies :
       LET concept == savedConcepts[p][idx[p]]
           r == GenerateQuiz(reply, concept)
       IN /\ log' = [log EXCEPT ![p] =
                        Append(@, Call("claude.GenerateQuiz", <<concept.id>>,
                                       ~r.err, r.questions))]
          /\ allQuizzes' = [allQuizzes EXCEPT ![p] =
                               IF r.err THEN @ ELSE @ \o r.questions]
          /\ pc' = [pc EXCEPT ![p] =
                       AfterGenerateQuiz(r.err, idx[p], Len(savedConcepts[p]))]
    /\ idx' = [idx EXCEPT ![p] = @ + 1]
    /\ UNCHANGED <<db, calls, url, sourceContent, videoInfo, concepts,
                   savedConcepts, generatedContents, result, dbAtCall>>

\* allQuizzes left as it was when CreateQuizBatch fails
QuizzesAfterSave_Kept(err, before, rows) == IF err THEN before ELSE rows

\* allQuizzes after CreateQuizBatch: emptied on an error, the saved rows
\* otherwise
QuizzesAfterSave(err, before, rows) == IF err THEN <<>> ELSE rows

\* Step 5, end: CreateQuizBatch when there is anything to save
SaveQuizzes(p) ==
    /\ pc[p] = "saveQuizzes"
    /\ IF Len(allQuizzes[p]) > 0
       THEN \E fault \in BatchFaults(Len(allQuizzes[p])) :
            LET r == CreateQuizBatch(db, allQuizzes[p], fault)
            IN /\ db' = r.db
               /\ log' = [log EXCEPT ![p] =
                             Append(@, Call("db.CreateQuizBatch", allQuizzes[p],
                                            ~r.err, r.rows))]
               /\ allQuizzes' = [allQuizzes EXCEPT ![p] =
                                    QuizzesAfterSave(r.err, @, r.rows)]
       ELSE UNCHANGED <<db, log, allQuizzes>>
    /\ idx' = [idx EXCEPT ![p] = 1]
    /\ pc' = [pc EXCEPT ![p] = "contentLoop"]
    /\ UNCHANGED <<calls, url, sourceContent, videoInfo, concepts, savedConcepts,
                   generatedContents, result, dbAtCall>>

\* `break` instead of `continue` on a content generation error
AfterGenerateContent_Break(err, i) ==
    IF err \/ i >= Len(platforms) THEN "saveContent" ELSE "contentLoop"

\* a platform loop that is never left
AfterGenerateContent_Stay(err, i) == "contentLoop"

\* the platform loop after iteration i: `continue` on an error, the next
\* platform otherwise, and out of the loop after the last one
AfterGenerateContent(err, i) ==
    IF i >= Len(platforms) THEN "saveContent" ELSE "contentLoop"

\* Step 6, one iteration of: for _, platform := range platforms
GenerateContentStep(p) ==
    /\ pc[p] = "contentLoop"
    /\ idx[p] <= Len(platforms)
    /\ \E reply \in ContentReplies :
       LET platform == platforms[idx[p]]
           r == GenerateContent(reply, platform, savedConcepts[p])
       IN /\ log' = [log EXCEPT ![p] =
                        Append(@, Call("claude.GenerateContent",
                                       <<platform, reply.kind, reply.data>>,
                                       ~r.err, r.content))]
          /\ generatedContents' = [generatedContents EXCEPT ![p] =
                                      IF r.err THEN @ ELSE @ \o r.content]
          /\ pc' = [pc EXCEPT ![p] = AfterGenerateContent(r.err, idx[p])]
    /\ idx' = [idx EXCEPT ![p] = @ + 1]
    /\ UNCHANGED <<db, calls, url, sourceContent, videoInfo, concepts,
                   savedConcepts, allQuizzes, result, dbAtCall>>

\* generatedContents left as it was when CreateGeneratedContentBatch fails
ContentsAfterSave_Kept(err, before, rows) == IF err THEN before ELSE rows

\* generatedContents after CreateGeneratedContentBatch: emptied on an
\* error, the saved rows otherwise
ContentsAfterSave(err, before, rows) == IF err THEN <<>> ELSE rows

\* Step 6, end, and Step 7: CreateGeneratedContentBatch when there is
\* anything to save, then the complete result
SaveGeneratedContent(p) ==
    /\ pc[p] = "saveContent"
    /\ IF Len(generatedContents[p]) > 0
       THEN \E fault \in BatchFaults(Len(generatedContents[p])) :
            LET r == CreateGeneratedContentBatch(db, generatedContents[p], fault)
                saved == ContentsAfterSave(r.err, generatedContents[p], r.rows)
            IN /\ db' = r.db
               /\ log' = [log EXCEPT ![p] =
                             Append(@, Call("db.CreateGeneratedContentBatch",
                                            generatedContents[p], ~r.err, r.rows))]
               /\ generatedContents' = [generatedContents EXCEPT ![p] = saved]
               /\ Return(p, ProcessResult(sourceContent[p], savedConcepts[p],
                                          allQuizzes[p], saved))
       ELSE /\ UNCHANGED <<db, log, generatedContents>>
            /\ Return(p, ProcessResult(sourceContent[p], savedConcepts[p],
                                       allQuizzes[p], generatedContents[p]))
    /\ UNCHANGED <<calls, url, sourceContent, videoInfo, concepts, savedConcepts,
                   allQuizzes, idx, dbAtCall>>

(***************************************************************************)
(* Specification: calls arrive one at a time (a single caller).            *)
(***************************************************************************)
Caller == 1

Next ==
    \/ \E u \in URLs : CheckDuplicate(Caller, u) /\ UNCHANGED <<transcriptVars, clientVars>>
    \/ getExistingProcessResult(Caller) /\ UNCHANGED <<transcriptVars, clientVars>>
    \/ FetchVideoInfo(Caller) /\ UNCHANGED <<transcriptVars, clientVars>>
    \/ SaveSourceContent(Caller) /\ UNCHANGED <<transcriptVars, clientVars>>
    \/ ExtractConceptsStep(Caller) /\ UNCHANGED <<transcriptVars, clientVars>>
    \/ SaveConcepts(Caller) /\ UNCHANGED <<transcriptVars, clientVars>>
    \/ GenerateQuizStep(Caller) /\ UNCHANGED <<transcriptVars, clientVars>>
    \/ SaveQuizzes(Caller) /\ UNCHANGED <<transcriptVars, clientVars>>
    \/ GenerateContentStep(Caller) /\ UNCHANGED <<transcriptVars, clientVars>>
    \/ SaveGeneratedContent(Caller) /\ UNCHANGED <<transcriptVars, clientVars>>

Spec == Init /\ [][Next]_vars

(***************************************************************************)
(* Specification: the request goroutines run ProcessYouTubeURL             *)
(* concurrently, each once and for the new reference; their steps          *)
(* interleave at the database calls.  Among the runs that have inserted    *)
(* their SourceContent only the first one is scheduled further, the others *)
(* wait: every behaviour is a behaviour of the program under a scheduler   *)
(* that lets the first run finish, and the duplicate checks, acquisitions  *)
(* and source inserts interleave in every order.                           *)
(***************************************************************************)
Step(p) ==
    \/ pc[p] = "idle" /\ CheckDuplicate(p, NewURL)
    \/ getExistingProcessResult(p)
    \/ FetchVideoInfo(p)
    \/ SaveSourceContent(p)
    \/ ExtractConceptsStep(p)
    \/ SaveConcepts(p)
    \/ GenerateQuizStep(p)
    \/ SaveQuizzes(p)
    \/ GenerateContentStep(p)
    \/ SaveGeneratedContent(p)

\* run p is past its source insert and not yet done
Late(p) == pc[p] \notin {"idle", "existing", "fetch", "saveSource", "done"}

\* the rows run p inserted into source_contents
SourceRowsOf(p) ==
    {r \in Range(db.sources) :
        \E i \in 1..Len(log[p]) :
            /\ log[p][i].call = "db.CreateSourceContent"
            /\ log[p][i].ok
            /\ r \in {log[p][i].ret[k] : k \in 1..Len(log[p][i].ret)}}

\* p is first among the runs past their insert
Scheduled(p) ==
    Late(p) =>
        \A q \in Procs \ {p} :
            \A r \in SourceRowsOf(p), t \in SourceRowsOf(q) : r.id < t.id

NextConcurrent ==
    \E p \in Procs :
        /\ Scheduled(p)
        /\ Step(p)
        /\ UNCHANGED <<transcriptVars, clientVars>>

SpecConcurrent == Init /\ [][NextConcurrent]_vars

(***************************************************************************)
(* pkg/youtube: Client.GetTranscript, one action per step.                 *)
(***************************************************************************)
\* return nil, err
TranscriptError(err) == [nonNil |-> FALSE, text |-> <<>>, err |-> err]

\* return &Transcript{Text: text, Language: "en"}, nil
Transcript(t) == [nonNil |-> TRUE, text |-> t, err |-> ""]

\* ValidateURL, then the yt-dlp invocation and the decoding of its output
RunYtDlp ==
    /\ tpc = "start"
    /\ IF ~ValidateURL(videoURL)
       THEN /\ transcript' = TranscriptError("ErrInvalidURL")
            /\ tpc' = "done"
            /\ UNCHANGED videoData
       ELSE IF ytdlp.kind # "json"
       THEN /\ transcript' = TranscriptError(
                    CASE ytdlp.kind = "private" -> "ErrVideoPrivate"
                      [] ytdlp.kind = "failed" -> "ErrCommandFailed"
                      [] ytdlp.kind = "badjson" -> "failed to parse video data")
            /\ tpc' = "done"
            /\ UNCHANGED videoData
       ELSE /\ videoData' = ytdlp.videoData
            /\ tpc' = "ran"
            /\ UNCHANGED transcript
    /\ external' = IF ValidateURL(videoURL) THEN Append(external, "yt-dlp") ELSE external
    /\ UNCHANGED <<videoURL, ytdlp, served, subtitle, subtitleData, text>>
    /\ UNCHANGED <<pipelineVars, clientVars, infoVars>>

\* findBestSubtitleURL and the test of its result
FindSubtitle ==
    /\ tpc = "ran"
    /\ subtitle' = findBestSubtitleURL(videoData)
    /\ IF subtitle'.url = ""
       THEN /\ transcript' = TranscriptError("ErrNoTranscript")
            /\ tpc' = "done"
       ELSE /\ tpc' = "located"
            /\ UNCHANGED transcript
    /\ UNCHANGED <<videoURL, ytdlp, served, videoData, subtitleData, text>>
    /\ UNCHANGED <<pipelineVars, clientVars, infoVars, external>>

\* downloadSubtitle
DownloadSubtitle ==
    /\ tpc = "located"
    /\ IF served.kind # "ok"
       THEN /\ transcript' = TranscriptError("failed to download subtitle")
            /\ tpc' = "done"
            /\ UNCHANGED subtitleData
       ELSE /\ subtitleData' = served.data
            /\ tpc' = "downloaded"
            /\ UNCHANGED transcript
    /\ external' = Append(external, "GET")
    /\ UNCHANGED <<videoURL, ytdlp, served, videoData, subtitle, text>>
    /\ UNCHANGED <<pipelineVars, clientVars, infoVars>>

\* the switch without the WebVTT retry of the srv formats
Decode_NoFallback(format, data) ==
    CASE format \in {"json3", "srv1", "srv2", "srv3"} -> ParseJSON3(data)
      [] OTHER -> ParseVTT(data)

\* switch subtitleFormat
Decode(format, data) ==
    CASE format = "json3" -> ParseJSON3(data)
      [] format = "vtt" -> ParseVTT(data)
      [] format \in {"srv1", "srv2", "srv3"} ->
            IF ParseJSON3(data).err THEN ParseVTT(data) ELSE ParseJSON3(data)
      [] OTHER -> ParseVTT(data)

\* the decoding step
ParseSubtitle ==
    /\ tpc = "downloaded"
    /\ LET r == Decode(subtitle.format, subtitleData)
       IN IF r.err
          THEN /\ transcript' = TranscriptError("failed to parse subtitle")
               /\ tpc' = "done"
               /\ UNCHANGED text
          ELSE /\ text' = r.text
               /\ tpc' = "parsed"
               /\ UNCHANGED transcript
    /\ UNCHANGED <<videoURL, ytdlp, served, videoData, subtitle, subtitleData>>
    /\ UNCHANGED <<pipelineVars, clientVars, infoVars, external>>

\* the cleaned text returned whatever it is
TranscriptOf_Unchecked(t) == Transcript(t)

\* if text == "" { return nil, ErrNoTranscript }; return &Transcript{...}
TranscriptOf(t) == IF t = <<>> THEN TranscriptError("ErrNoTranscript") ELSE Transcript(t)

\* CleanTranscript and the return
ReturnTranscript ==
    /\ tpc = "parsed"
    /\ text' = CleanTranscript(text)
    /\ transcript' = TranscriptOf(text')
    /\ tpc' = "done"
    /\ UNCHANGED <<videoURL, ytdlp, served, videoData, subtitle, subtitleData>>
    /\ UNCHANGED <<pipelineVars, clientVars, infoVars, external>>

\* a call of GetTranscript: every metadata document with a few caption
\* payloads, and every caption payload with a few metadata documents
InitTranscript ==
    /\ PipelineInit
    /\ ClientIdle
    /\ InfoIdle
    /\ external = <<>>
    /\ tpc = "start"
    /\ \/ /\ videoURL = NewURL
          /\ ytdlp \in YtDlpOutputs
          /\ served \in FewServedReplies
       \/ /\ videoURL = NewURL
          /\ ytdlp \in FewYtDlpOutputs
          /\ served \in ServedReplies
       \/ /\ videoURL = BadURL
          /\ ytdlp = NoYtDlp
          /\ served = NoServed
    /\ videoData = NoVideoData
    /\ subtitle = NoSubtitle
    /\ subtitleData = TextPayload(<<>>)
    /\ text = <<>>
    /\ transcript = NoTranscript

NextTranscript ==
    \/ RunYtDlp
    \/ FindSubtitle
    \/ DownloadSubtitle
    \/ ParseSubtitle
    \/ ReturnTranscript

SpecTranscript == InitTranscript /\ [][NextTranscript]_vars

(***************************************************************************)
(* pkg/youtube: Client.GetVideoMetadata, Client.GetVideoInfo and           *)
(* Client.GetTranscript as the caller calls them; the steps of             *)
(* GetTranscript are the actions above.                                    *)
(***************************************************************************)
\* GetVideoMetadata invoking yt-dlp whatever the reference
MetadataCall_Unvalidated ==
    /\ vpc = "start"
    /\ method \in {"GetVideoMetadata", "GetVideoInfo"}
    /\ metadata' = MetadataOf(metaOut)
    /\ external' = Append(external, "yt-dlp")
    /\ vpc' = IF method = "GetVideoMetadata" THEN "done" ELSE "metadata"
    /\ UNCHANGED <<method, metaOut, vinfo>>
    /\ UNCHANGED <<tpc, videoURL, ytdlp, served, videoData, subtitle, subtitleData,
                   text, transcript>>
    /\ UNCHANGED <<pipelineVars, clientVars>>

\* GetVideoMetadata, called directly or as the first call of GetVideoInfo
MetadataCall ==
    /\ vpc = "start"
    /\ method \in {"GetVideoMetadata", "GetVideoInfo"}
    /\ IF ~ValidateURL(videoURL)
       THEN /\ metadata' = MetadataError("ErrInvalidURL")
            /\ UNCHANGED external
       ELSE /\ metadata' = MetadataOf(metaOut)
            /\ external' = Append(external, "yt-dlp")
    /\ vpc' = IF method = "GetVideoMetadata" THEN "done" ELSE "metadata"
    /\ UNCHANGED <<method, metaOut, vinfo>>
    /\ UNCHANGED <<tpc, videoURL, ytdlp, served, videoData, subtitle, subtitleData,
                   text, transcript>>
    /\ UNCHANGED <<pipelineVars, clientVars>>

\* GetVideoInfo after GetVideoMetadata: return nil, err, or go on to
\* GetTranscript
AfterMetadata ==
    /\ vpc = "metadata"
    /\ IF ~metadata.nonNil
       THEN /\ vinfo' = VideoInfo(FALSE, NoMetadata, NoTranscript, metadata.err, "")
            /\ vpc' = "done"
            /\ UNCHANGED tpc
       ELSE /\ tpc' = "start"
            /\ vpc' = "transcript"
            /\ UNCHANGED vinfo
    /\ UNCHANGED <<method, metaOut, metadata, external>>
    /\ UNCHANGED <<videoURL, ytdlp, served, videoData, subtitle, subtitleData,
                   text, transcript>>
    /\ UNCHANGED <<pipelineVars, clientVars>>

\* GetTranscript called directly
TranscriptCall ==
    /\ vpc = "start"
    /\ method = "GetTranscript"
    /\ tpc' = "start"
    /\ vpc' = "transcript"
    /\ UNCHANGED <<method, metaOut, metadata, vinfo, external>>
    /\ UNCHANGED <<videoURL, ytdlp, served, videoData, subtitle, subtitleData,
                   text, transcript>>
    /\ UNCHANGED <<pipelineVars, clientVars>>

\* GetTranscript has returned: the return of GetVideoInfo, or of the
\* direct call
ReturnVideoInfo ==
    /\ vpc = "transcript"
    /\ tpc = "done"
    /\ vinfo' = IF method = "GetVideoInfo" THEN VideoInfoOf(metadata, transcript)
                ELSE vinfo
    /\ vpc' = "done"
    /\ UNCHANGED <<method, metaOut, metadata, external>>
    /\ UNCHANGED <<tpc, videoURL, ytdlp, served, videoData, subtitle, subtitleData,
                   text, transcript>>
    /\ UNCHANGED <<pipelineVars, clientVars>>

\* a call of one of the three methods for a reference of each kind
InitVideoInfo ==
    /\ PipelineInit
    /\ ClientIdle
    /\ method \in {"GetVideoMetadata", "GetVideoInfo", "GetTranscript"}
    /\ vpc = "start"
    /\ metaOut \in MetadataOutputs
    /\ metadata = NoMetadata
    /\ vinfo = NoInfo
    /\ external = <<>>
    /\ tpc = "idle"
    /\ videoURL \in URLs
    /\ ytdlp \in FewYtDlpOutputs
                 \cup {YtDlp(k, NoVideoData) : k \in {"private", "failed", "badjson", "json"}}
    /\ served \in FewServedReplies
    /\ videoData = NoVideoData
    /\ subtitle = NoSubtitle
    /\ subtitleData = TextPayload(<<>>)
    /\ text = <<>>
    /\ transcript = NoTranscript

NextVideoInfo ==
    \/ MetadataCall
    \/ AfterMetadata
    \/ TranscriptCall
    \/ RunYtDlp
    \/ FindSubtitle
    \/ DownloadSubtitle
    \/ ParseSubtitle
    \/ ReturnTranscript
    \/ ReturnVideoInfo

SpecVideoInfo == InitVideoInfo /\ [][NextVideoInfo]_vars

(***************************************************************************)
(* pkg/youtube: the methods of the SubtitleParser called on a payload.     *)
(***************************************************************************)
ParseJSON3Call ==
    /\ tpc = "input"
    /\ text' = ParseJSON3(subtitleData).text
    /\ tpc' = IF ParseJSON3(subtitleData).err THEN "error" ELSE "ParseJSON3"
    /\ UNCHANGED <<videoURL, ytdlp, served, videoData, subtitle, subtitleData,
                   transcript>>
    /\ UNCHANGED <<pipelineVars, clientVars, infoVars, external>>

ParseSRTCall ==
    /\ tpc = "input"
    /\ text' = ParseSRT(subtitleData).text
    /\ tpc' = "ParseSRT"
    /\ UNCHANGED <<videoURL, ytdlp, served, videoData, subtitle, subtitleData,
                   transcript>>
    /\ UNCHANGED <<pipelineVars, clientVars, infoVars, external>>

ParseVTTCall ==
    /\ tpc = "input"
    /\ text' = ParseVTT(subtitleData).text
    /\ tpc' = "ParseVTT"
    /\ UNCHANGED <<videoURL, ytdlp, served, videoData, subtitle, subtitleData,
                   transcript>>
    /\ UNCHANGED <<pipelineVars, clientVars, infoVars, external>>

CleanTranscriptCall ==
    /\ tpc \in {"ParseJSON3", "ParseSRT", "ParseVTT"}
    /\ text' = CleanTranscript(text)
    /\ tpc' = "CleanTranscript"
    /\ UNCHANGED <<videoURL, ytdlp, served, videoData, subtitle, subtitleData,
                   transcript>>
    /\ UNCHANGED <<pipelineVars, clientVars, infoVars, external>>

\* a parser about to be called on a payload
InitParser ==
    /\ PipelineInit
    /\ ClientIdle
    /\ InfoIdle
    /\ external = <<>>
    /\ tpc = "input"
    /\ videoURL = ""
    /\ ytdlp = NoYtDlp
    /\ served = NoServed
    /\ videoData = NoVideoData
    /\ subtitle = NoSubtitle
    /\ subtitleData \in Payloads \cup SRTPayloads
    /\ text = <<>>
    /\ transcript = NoTranscript

NextParser ==
    \/ ParseJSON3Call
    \/ ParseSRTCall
    \/ ParseVTTCall
    \/ CleanTranscriptCall

SpecParser == InitParser /\ [][NextParser]_vars

(***************************************************************************)
(* pkg/claude: Client.SendMessage, one action per step.                    *)
(***************************************************************************)
\* the defaults, json.Marshal and http.NewRequestWithContext
PrepareRequest ==
    /\ spc = "start"
    /\ req' = [Model |-> IF req.Model = "" THEN DefaultModel ELSE req.Model,
               MaxTokens |-> IF req.MaxTokens = 0 THEN DefaultMaxTokens
                             ELSE req.MaxTokens]
    /\ attempt' = 0
    /\ spc' = "do"
    /\ UNCHANGED <<entry, ctxDone, textReply, resp, wire, slept, sendResult>>
    /\ UNCHANGED <<pipelineVars, transcriptVars, replyVars>>

\* one iteration of the retry loop up to its return, continue or break
DoRequest ==
    /\ spc = "do"
    /\ attempt < maxRetries
    /\ \E r \in (IF ctxDone THEN {NoResponse} ELSE DoResults) :
        /\ resp' = r
        /\ wire' = Append(wire, r)
        /\ IF Retryable(r)
           THEN IF attempt = maxRetries - 1
                THEN /\ sendResult' = Exhausted(r)
                     /\ spc' = "done"
                ELSE /\ spc' = "sleep"
                     /\ UNCHANGED sendResult
           ELSE /\ spc' = "read"
                /\ UNCHANGED sendResult
    /\ UNCHANGED <<entry, ctxDone, textReply, req, attempt, slept>>
    /\ UNCHANGED <<pipelineVars, transcriptVars, replyVars>>

\* time.Sleep, then the next iteration
Sleep ==
    /\ spc = "sleep"
    /\ slept' = Append(slept, Backoff(resp, attempt))
    /\ attempt' = attempt + 1
    /\ spc' = "do"
    /\ UNCHANGED <<entry, ctxDone, textReply, req, resp, wire, sendResult>>
    /\ UNCHANGED <<pipelineVars, transcriptVars, replyVars>>

\* after the loop: io.ReadAll, the status test, json.Unmarshal
ReadResponse ==
    /\ spc = "read"
    /\ sendResult' = Answer(resp)
    /\ spc' = "done"
    /\ UNCHANGED <<entry, ctxDone, textReply, req, attempt, resp, wire, slept>>
    /\ UNCHANGED <<pipelineVars, transcriptVars, replyVars>>

\* SendMessageWithSystem after its call of SendMessage
ReturnText ==
    /\ spc = "done"
    /\ entry = "SendMessageWithSystem"
    /\ textReply' = ReplyOf(sendResult)
    /\ spc' = "returned"
    /\ UNCHANGED <<entry, ctxDone, req, attempt, resp, wire, slept, sendResult>>
    /\ UNCHANGED <<pipelineVars, transcriptVars, replyVars>>

\* the caller cancels ctx while the call is in its retry loop (a
\* cancellation after the loop can only make io.ReadAll fail, which is the
\* case of a body that cannot be read)
Cancel ==
    /\ spc \in {"start", "do", "sleep"}
    /\ ~ctxDone
    /\ ctxDone' = TRUE
    /\ UNCHANGED <<entry, textReply, spc, req, attempt, resp, wire, slept, sendResult>>
    /\ UNCHANGED <<pipelineVars, transcriptVars, replyVars>>

\* a call of SendMessage, or of SendMessageWithSystem
InitClient ==
    /\ PipelineInit
    /\ TranscriptIdle
    /\ ReplyIdle
    /\ entry \in {"SendMessage", "SendMessageWithSystem"}
    /\ ctxDone = FALSE
    /\ textReply = TextReply("", "")
    /\ spc = "start"
    /\ req \in (IF entry = "SendMessage" THEN MessageRequests ELSE {SystemRequest})
    /\ attempt = 0
    /\ resp = NoResponse
    /\ wire = <<>>
    /\ slept = <<>>
    /\ sendResult = SendResult(FALSE, "", <<>>)

NextClient ==
    \/ PrepareRequest
    \/ DoRequest
    \/ Sleep
    \/ ReadResponse
    \/ ReturnText
    \/ Cancel

SpecClient == InitClient /\ [][NextClient]_vars

(***************************************************************************)
(* pkg/claude: ParseJSONResponse called on a reply.                        *)
(***************************************************************************)
ParseJSONResponseCall ==
    /\ ~parseResult.called
    /\ parseResult' = ParseJSONResponse(responseText)
    /\ UNCHANGED <<responseText, entry, ctxDone, textReply, spc, req, attempt,
                   resp, wire, slept, sendResult>>
    /\ UNCHANGED <<pipelineVars, transcriptVars>>

\* ParseJSONResponse about to be called on a reply
InitReply ==
    /\ PipelineInit
    /\ TranscriptIdle
    /\ entry = ""
    /\ ctxDone = FALSE
    /\ textReply = TextReply("", "")
    /\ spc = "idle"
    /\ req = [Model |-> "", MaxTokens |-> 0]
    /\ attempt = 0
    /\ resp = NoResponse
    /\ wire = <<>>
    /\ slept = <<>>
    /\ sendResult = SendResult(FALSE, "", <<>>)
    /\ responseText \in Replies
    /\ parseResult = NoParse

NextReply == ParseJSONResponseCall

SpecReply == InitReply /\ [][NextReply]_vars

(***************************************************************************)
(* Specification: a caller's runs of ProcessYouTubeURL, or one of the      *)
(* SendMessage calls its derivation steps make, every step of the code     *)
(* being taken once it can be: each external call returns or times out,    *)
(* and nothing else holds the goroutine up.                                *)
(***************************************************************************)
\* a step of run p after its call
RunStep(p) ==
    /\ \/ getExistingProcessResult(p)
       \/ FetchVideoInfo(p)
       \/ SaveSourceContent(p)
       \/ ExtractConceptsStep(p)
       \/ SaveConcepts(p)
       \/ GenerateQuizStep(p)
       \/ SaveQuizzes(p)
       \/ GenerateContentStep(p)
       \/ SaveGeneratedContent(p)
    /\ UNCHANGED <<transcriptVars, clientVars>>

\* a step of the call of SendMessage
ClientStep ==
    \/ PrepareRequest
    \/ DoRequest
    \/ Sleep
    \/ ReadResponse
    \/ ReturnText

InitRunOrCall == Init \/ InitClient

NextRunOrCall ==
    \/ spc = "idle" /\ Next
    \/ spc # "idle" /\ NextClient

SpecTerminating ==
    /\ InitRunOrCall
    /\ [][NextRunOrCall]_vars
    /\ WF_vars(spc = "idle" /\ RunStep(Caller))
    /\ WF_vars(spc # "idle" /\ ClientStep)

(***************************************************************************)
(* Vocabulary of the properties: the call trace of a run.                  *)
(***************************************************************************)
\* positions of the calls of the given name in the trace of run p
Entries(p, name) == {i \in 1..Len(log[p]) : log[p][i].call = name}

\* the calls of the given name of run p, in order
CallsOf(p, name) == SelectSeq(log[p], LAMBDA e : e.call = name)

IsAcquisition(name) == name \in {"yt-dlp", "download", "youtube.GetVideoInfo"}

IsDerivation(name) ==
    name \in {"claude.ExtractConcepts", "claude.GenerateQuiz", "claude.GenerateContent"}

IsInsert(name) ==
    name \in {"db.CreateSourceContent", "db.CreateConceptsBatch",
              "db.CreateQuizBatch", "db.CreateGeneratedContentBatch"}

\* the rows of the four tables
Tables(d) == <<d.sources, d.concepts, d.quizzes, d.contents>>

\* the source rows with the run's url that were persisted when it was called
RowsAtCall(p) == {r \in Range(dbAtCall[p].sources) : r.url = url[p]}

\* a row as generated, before the store gave it an id and a timestamp
Unsaved(row) == [row EXCEPT !.id = 0, !.createdAt = 0]

UnsavedSeq(rows) == [i \in 1..Len(rows) |-> Unsaved(rows[i])]

Ids(rows) == {rows[i].id : i \in 1..Len(rows)}

\* what the successful calls of the given name returned, concatenated
Produced(p, name) ==
    LET cs == CallsOf(p, name)
    IN Flatten([k \in 1..Len(cs) |-> IF cs[k].ok THEN cs[k].ret ELSE <<>>])

\* the run made none of the calls of a fresh run and the tables are as they
\* were when it was called
NoExternalWork(p) ==
    /\ \A i \in 1..Len(log[p]) :
          /\ ~IsAcquisition(log[p][i].call)
          /\ ~IsDerivation(log[p][i].call)
          /\ ~IsInsert(log[p][i].call)
    /\ Tables(db) = Tables(dbAtCall[p])

\* the run returned success
Succeeded(p) == pc[p] = "done" /\ result[p].nonNil /\ result[p].err = ""

\* the run returned an error and no result
Failed(p) == pc[p] = "done" /\ ~result[p].nonNil /\ result[p].err # ""

(***************************************************************************)
(* C1.  As stated: a call for a reference whose SourceContent row is       *)
(* already persisted returns a result carrying that row and makes no tool  *)
(* invocation, caption download or derivation call and creates no row.     *)
(***************************************************************************)
C1_AsStated ==
    \A p \in Procs :
        (pc[p] = "done" /\ RowsAtCall(p) # {}) =>
            /\ result[p].nonNil
            /\ result[p].SourceContent \in RowsAtCall(p)
            /\ NoExternalWork(p)

\* C1, amended: a call for a reference whose SourceContent row is already
\* persisted makes no tool invocation, caption download or derivation call
\* and creates no row; it returns a result carrying that row (same id),
\* unless the duplicate lookup itself fails, in which case it returns an
\* error and no result.
C1_DuplicateShortCircuit ==
    \A p \in Procs :
        (pc[p] # "idle" /\ RowsAtCall(p) # {}) =>
            /\ NoExternalWork(p)
            /\ pc[p] = "done" =>
                 IF log[p][1].ok
                 THEN /\ Succeeded(p)
                      /\ result[p].SourceContent \in RowsAtCall(p)
                      /\ result[p].SourceContent.url = url[p]
                 ELSE Failed(p)

\* a second submission of the new reference, after a run that persisted
\* concepts and generated content for it, has returned
C1_Witness ==
    /\ pc[Caller] = "done"
    /\ url[Caller] = NewURL
    /\ RowsAtCall(Caller) # {}
    /\ result[Caller].nonNil
    /\ Len(result[Caller].Concepts) > 0
    /\ Len(result[Caller].GeneratedContent) > 0

(***************************************************************************)
(* C2.  If concept extraction fails (client error or unparsable reply) or  *)
(* the concept batch insert fails, the run returns success with the        *)
(* persisted SourceContent and empty Concepts, Quizzes and                 *)
(* GeneratedContent, and makes no quiz- or content-generation call.        *)
(***************************************************************************)
ExtractionFailed(p) ==
    \E i \in Entries(p, "claude.ExtractConcepts") : log[p][i].arg[1] # "json"

ConceptInsertFailed(p) ==
    \E i \in Entries(p, "db.CreateConceptsBatch") : ~log[p][i].ok

C2_ConceptFailureDegrades ==
    \A p \in Procs :
        (ExtractionFailed(p) \/ ConceptInsertFailed(p)) =>
            /\ Succeeded(p)
            /\ result[p].SourceContent.id # 0
            /\ result[p].SourceContent.url = url[p]
            /\ result[p].SourceContent \in Range(db.sources)
            /\ result[p].Concepts = <<>>
            /\ result[p].Quizzes = <<>>
            /\ result[p].GeneratedContent = <<>>
            /\ Entries(p, "claude.GenerateQuiz") = {}
            /\ Entries(p, "claude.GenerateContent") = {}

\* a run whose insert of two extracted concepts failed has returned
C2_Witness ==
    /\ pc[Caller] = "done"
    /\ \E i \in Entries(Caller, "db.CreateConceptsBatch") :
          ~log[Caller][i].ok /\ Len(log[Caller][i].arg) = 2

(***************************************************************************)
(* C3.  Once the SourceContent row has been created the run never returns  *)
(* an error: whatever fails afterwards, it returns a non-nil result whose  *)
(* SourceContent is the row just created.                                  *)
(***************************************************************************)
C3_NoErrorAfterSourceCreated ==
    \A p \in Procs :
        \A i \in Entries(p, "db.CreateSourceContent") :
            (log[p][i].ok /\ pc[p] = "done") =>
                /\ Succeeded(p)
                /\ result[p].SourceContent = log[p][i].ret[1]
                /\ result[p].SourceContent \in Range(db.sources)

\* a run returned after a quiz generation failure, a failed quiz insert, a
\* content generation failure and a failed content insert
C3_Witness ==
    /\ pc[Caller] = "done"
    /\ \E i \in Entries(Caller, "db.CreateSourceContent") : log[Caller][i].ok
    /\ \E i \in Entries(Caller, "claude.GenerateQuiz") : ~log[Caller][i].ok
    /\ \E i \in Entries(Caller, "db.CreateQuizBatch") : ~log[Caller][i].ok
    /\ \E i \in Entries(Caller, "claude.GenerateContent") : ~log[Caller][i].ok
    /\ \E i \in Entries(Caller, "db.CreateGeneratedContentBatch") : ~log[Caller][i].ok

(***************************************************************************)
(* C4.  If the duplicate lookup finds nothing and then acquisition fails   *)
(* (or yields no transcript) or the SourceContent insert fails, the run    *)
(* returns an error and no result, makes no derivation call and creates no *)
(* concept, quiz or generated-content row; when acquisition failed it      *)
(* creates no SourceContent row either.                                    *)
(***************************************************************************)
LookupFoundNothing(p) ==
    /\ Len(log[p]) >= 1
    /\ log[p][1].ok
    /\ log[p][1].ret = <<>>

AcquisitionFailed(p) ==
    \E i \in Entries(p, "youtube.GetVideoInfo") :
        ~log[p][i].ok \/ log[p][i].ret = <<>>

SourceInsertFailed(p) ==
    \E i \in Entries(p, "db.CreateSourceContent") : ~log[p][i].ok

C4_FatalBeforeSource ==
    \A p \in Procs :
        (LookupFoundNothing(p) /\ (AcquisitionFailed(p) \/ SourceInsertFailed(p))) =>
            /\ Failed(p)
            /\ \A i \in 1..Len(log[p]) : ~IsDerivation(log[p][i].call)
            /\ db.concepts = dbAtCall[p].concepts
            /\ db.quizzes = dbAtCall[p].quizzes
            /\ db.contents = dbAtCall[p].contents
            /\ AcquisitionFailed(p) => db.sources = dbAtCall[p].sources

\* a run whose SourceContent insert failed after a successful acquisition
\* has returned
C4_Witness ==
    /\ pc[Caller] = "done"
    /\ LookupFoundNothing(Caller)
    /\ SourceInsertFailed(Caller)
    /\ Entries(Caller, "download") # {}

(***************************************************************************)
(* C5.  When quiz generation fails for some persisted concepts, quizzes    *)
(* are still requested for every other concept; if the quiz batch insert   *)
(* then succeeds, the returned Quizzes are exactly the questions generated *)
(* for the concepts whose generation succeeded, each referencing its       *)
(* concept's persisted id; the failing concepts stay in the returned       *)
(* Concepts.                                                               *)
(***************************************************************************)
PastQuizLoop(p) == pc[p] \in {"saveQuizzes", "contentLoop", "saveContent", "done"}

C5_QuizFailureSkipsConcept ==
    \A p \in Procs :
        \A i \in Entries(p, "db.CreateConceptsBatch") :
            log[p][i].ok =>
                LET saved == log[p][i].ret
                    qc == CallsOf(p, "claude.GenerateQuiz")
                IN /\ Ids(saved) \subseteq Ids(db.concepts)
                   \* one request per persisted concept, in order
                   /\ Len(qc) <= Len(saved)
                   /\ \A k \in 1..Len(qc) :
                         /\ qc[k].arg[1] = saved[k].id
                         /\ \A n \in 1..Len(qc[k].ret) :
                               qc[k].ret[n].conceptId = saved[k].id
                   /\ PastQuizLoop(p) => Len(qc) = Len(saved)
                   /\ pc[p] = "done" =>
                         /\ result[p].Concepts = saved
                         /\ (\A j \in Entries(p, "db.CreateQuizBatch") : log[p][j].ok) =>
                               /\ UnsavedSeq(result[p].Quizzes)
                                     = Produced(p, "claude.GenerateQuiz")
                               /\ \A n \in 1..Len(result[p].Quizzes) :
                                     result[p].Quizzes[n] \in Range(db.quizzes)

\* a run with two persisted concepts, whose first quiz generation failed
\* and whose second succeeded, has saved and returned the second's questions
C5_Witness ==
    LET qc == CallsOf(Caller, "claude.GenerateQuiz")
    IN /\ pc[Caller] = "done"
       /\ Len(result[Caller].Concepts) = 2
       /\ Len(qc) = 2
       /\ ~qc[1].ok
       /\ qc[2].ok
       /\ \E j \in Entries(Caller, "db.CreateQuizBatch") : log[Caller][j].ok
       /\ Len(result[Caller].Quizzes) > 0
       /\ \A n \in 1..Len(result[Caller].Quizzes) :
             result[Caller].Quizzes[n].conceptId = result[Caller].Concepts[2].id

(***************************************************************************)
(* C6.  If the quiz batch insert fails, the returned Quizzes are empty,    *)
(* the returned Concepts are still all persisted concepts, and the run     *)
(* goes on to content generation for the three platforms.                  *)
(***************************************************************************)
QuizInsertFailed(p) ==
    \E i \in Entries(p, "db.CreateQuizBatch") : ~log[p][i].ok

C6_QuizInsertFailureDropsQuizzes ==
    \A p \in Procs :
        QuizInsertFailed(p) =>
            LET cc == CallsOf(p, "claude.GenerateContent")
            IN /\ pc[p] \in {"contentLoop", "saveContent", "done"}
               /\ allQuizzes[p] = <<>>
               /\ pc[p] \in {"saveContent", "done"} =>
                     [k \in 1..Len(cc) |-> cc[k].arg[1]] = platforms
               /\ pc[p] = "done" =>
                     /\ Succeeded(p)
                     /\ result[p].Quizzes = <<>>
                     /\ result[p].Concepts = Produced(p, "db.CreateConceptsBatch")
                     /\ result[p].Concepts # <<>>
                     /\ Range(result[p].Concepts) \subseteq Range(db.concepts)

\* a run whose quiz insert failed has returned its concepts and content
C6_Witness ==
    /\ pc[Caller] = "done"
    /\ QuizInsertFailed(Caller)
    /\ Len(result[Caller].Concepts) = 2
    /\ Len(result[Caller].GeneratedContent) = 3

(***************************************************************************)
(* C7.  As stated: content generation is attempted for linkedin, twitter,  *)
(* blog in that order whatever fails; the batch insert is called with      *)
(* exactly the items of the platforms whose generation succeeded; the      *)
(* returned GeneratedContent holds exactly those items; when all three     *)
(* fail no insert is attempted.                                            *)
(***************************************************************************)
\* the run got past the concept insert
FullRun(p) == \E i \in Entries(p, "db.CreateConceptsBatch") : log[p][i].ok

\* the platform loop of run p, so far
PlatformLoopInOrder(p) ==
    LET cc == CallsOf(p, "claude.GenerateContent")
    IN /\ Len(cc) <= Len(platforms)
       /\ \A k \in 1..Len(cc) :
             /\ cc[k].arg[1] = platforms[k]
             /\ cc[k].ok => Len(cc[k].ret) = 1 /\ cc[k].ret[1].platform = platforms[k]
       /\ pc[p] \in {"saveContent", "done"} => Len(cc) = Len(platforms)

\* the insert is called once with the generated items, or not at all when
\* there are none
ContentInsertOfGenerated(p) ==
    LET generated == Produced(p, "claude.GenerateContent")
        ins == CallsOf(p, "db.CreateGeneratedContentBatch")
    IN IF generated = <<>> THEN ins = <<>>
       ELSE Len(ins) = 1 /\ ins[1].arg = generated

C7_AsStated ==
    \A p \in Procs :
        FullRun(p) =>
            /\ PlatformLoopInOrder(p)
            /\ pc[p] = "done" =>
                  /\ ContentInsertOfGenerated(p)
                  /\ UnsavedSeq(result[p].GeneratedContent)
                        = Produced(p, "claude.GenerateContent")

\* C7, amended: as stated, except that the returned GeneratedContent holds
\* exactly the generated items only if the batch insert succeeds (or none
\* was needed).
C7_PlatformFailureSkipsPlatform ==
    \A p \in Procs :
        FullRun(p) =>
            /\ PlatformLoopInOrder(p)
            /\ pc[p] = "done" =>
                  /\ ContentInsertOfGenerated(p)
                  /\ (\A j \in Entries(p, "db.CreateGeneratedContentBatch") : log[p][j].ok) =>
                        /\ UnsavedSeq(result[p].GeneratedContent)
                              = Produced(p, "claude.GenerateContent")
                        /\ Range(result[p].GeneratedContent) \subseteq Range(db.contents)

\* a run in which exactly the twitter generation failed has inserted and
\* returned the two other items
C7_Witness ==
    LET cc == CallsOf(Caller, "claude.GenerateContent")
        ins == CallsOf(Caller, "db.CreateGeneratedContentBatch")
    IN /\ pc[Caller] = "done"
       /\ Len(cc) = 3
       /\ cc[1].ok /\ ~cc[2].ok /\ cc[3].ok
       /\ Len(ins) = 1 /\ ins[1].ok /\ Len(ins[1].arg) = 2
       /\ Len(result[Caller].GeneratedContent) = 2
       /\ result[Caller].GeneratedContent[1].platform = "linkedin"
       /\ result[Caller].GeneratedContent[2].platform = "blog"

(***************************************************************************)
(* C8.  If the generated-content batch insert fails, the returned          *)
(* GeneratedContent is empty, the returned Concepts and Quizzes are what   *)
(* the earlier stages produced, and the call reports success.              *)
(***************************************************************************)
ContentInsertFailed(p) ==
    \E i \in Entries(p, "db.CreateGeneratedContentBatch") : ~log[p][i].ok

C8_ContentInsertFailureDropsContent ==
    \A p \in Procs :
        ContentInsertFailed(p) =>
            /\ Succeeded(p)
            /\ result[p].GeneratedContent = <<>>
            /\ result[p].Concepts = Produced(p, "db.CreateConceptsBatch")
            /\ result[p].Quizzes = Produced(p, "db.CreateQuizBatch")
            /\ Range(result[p].Concepts) \subseteq Range(db.concepts)
            /\ Range(result[p].Quizzes) \subseteq Range(db.quizzes)

\* a run whose content insert failed has returned its concepts and quizzes
C8_Witness ==
    /\ pc[Caller] = "done"
    /\ ContentInsertFailed(Caller)
    /\ Len(result[Caller].Concepts) = 2
    /\ Len(result[Caller].Quizzes) = 2

(***************************************************************************)
(* C9.  Every returned PipelineResult is internally consistent: every      *)
(* Concept belongs to the result's SourceContent, every QuizQuestion       *)
(* references one of the result's Concepts, and every                      *)
(* GeneratedContentItem's conceptIds intersect the ids of the result's     *)
(* Concepts (also when concept extraction yields an empty list).           *)
(***************************************************************************)
Consistent(res) ==
    /\ \A i \in 1..Len(res.Concepts) :
          res.Concepts[i].sourceContentId = res.SourceContent.id
    /\ \A i \in 1..Len(res.Quizzes) :
          res.Quizzes[i].conceptId \in Ids(res.Concepts)
    /\ \A i \in 1..Len(res.GeneratedContent) :
          Range(res.GeneratedContent[i].conceptIds) \cap Ids(res.Concepts) # {}

\* the claim for the results of the runs that processed a new reference
\* (the runs that created their SourceContent)
C9_AsStated ==
    \A p \in Procs :
        (Succeeded(p) /\ Entries(p, "db.CreateSourceContent") # {}) =>
            Consistent(result[p])

(***************************************************************************)
(* C10.  Within one run the stages occur strictly in the order duplicate   *)
(* check, acquisition, source insert, concept extraction, concept insert,  *)
(* quiz generation, quiz insert, content generation, content insert: no    *)
(* quiz is requested for a concept before the concept batch insert has     *)
(* committed, and no content-generation call is issued before the quiz     *)
(* insert step has finished.                                               *)
(***************************************************************************)
Stage(name) ==
    CASE name = "db.GetSourceContentByURL" -> 1
      [] IsAcquisition(name) -> 2
      [] name = "db.CreateSourceContent" -> 3
      [] name = "claude.ExtractConcepts" -> 4
      [] name = "db.CreateConceptsBatch" -> 5
      [] name = "claude.GenerateQuiz" -> 6
      [] name = "db.CreateQuizBatch" -> 7
      [] name = "claude.GenerateContent" -> 8
      [] name = "db.CreateGeneratedContentBatch" -> 9
      [] OTHER -> 2   \* the reads of the duplicate short-circuit

\* stages that are a single call
SingleCall(name) == Stage(name) \in {1, 3, 4, 5, 7, 9}

C10_StageOrder ==
    \A p \in Procs :
        LET l == log[p]
        IN /\ \A i, j \in 1..Len(l) :
                 i < j => /\ Stage(l[i].call) <= Stage(l[j].call)
                          /\ SingleCall(l[i].call) => Stage(l[i].call) < Stage(l[j].call)
           \* a stage is entered only when all stages before it were
           /\ \A j \in 1..Len(l) :
                 Stage(l[j].call) >= 3 =>
                    \A st \in 1..5 :
                       st < Stage(l[j].call) =>
                          \E i \in 1..(j - 1) : Stage(l[i].call) = st /\ l[i].ok
           \* a quiz is requested only for a committed concept
           /\ \A j \in Entries(p, "claude.GenerateQuiz") :
                 \E i \in 1..(j - 1) :
                    /\ l[i].call = "db.CreateConceptsBatch"
                    /\ l[i].ok
                    /\ \E c \in Range(l[i].ret) :
                          c.id = l[j].arg[1] /\ c \in Range(db.concepts)
           \* content is requested only after the quiz loop has run over
           \* every concept and its questions, if any, went to the insert
           /\ \A j \in Entries(p, "claude.GenerateContent") :
                 LET before == SubSeq(l, 1, j - 1)
                     qc == SelectSeq(before, LAMBDA e : e.call = "claude.GenerateQuiz")
                     generated ==
                        Flatten([k \in 1..Len(qc) |->
                                    IF qc[k].ok THEN qc[k].ret ELSE <<>>])
                 IN /\ Len(qc) = Len(savedConcepts[p])
                    /\ generated # <<>> =>
                          \E i \in 1..(j - 1) :
                             l[i].call = "db.CreateQuizBatch" /\ l[i].arg = generated

\* a run that went through all nine stages has returned
C10_Witness ==
    /\ pc[Caller] = "done"
    /\ \A st \in 1..9 : \E i \in 1..Len(log[Caller]) : Stage(log[Caller][i].call) = st
    /\ Len(CallsOf(Caller, "claude.GenerateQuiz")) = 2

(***************************************************************************)
(* C11.  Each of CreateConceptsBatch, CreateQuizBatch and                  *)
(* CreateGeneratedContentBatch is atomic: a call that returns an error     *)
(* leaves every table as it was (none of the batch's rows is persisted,    *)
(* whether a row insert or the commit failed), and a call that returns     *)
(* success has appended all rows of the batch, in order, to its table.     *)
(***************************************************************************)
BatchInserts ==
    {"db.CreateConceptsBatch", "db.CreateQuizBatch", "db.CreateGeneratedContentBatch"}

\* the table a batch insert writes to
BatchTable(d, name) ==
    CASE name = "db.CreateConceptsBatch" -> d.concepts
      [] name = "db.CreateQuizBatch" -> d.quizzes
      [] name = "db.CreateGeneratedContentBatch" -> d.contents

\* C11: every batch insert persists all of its rows or none
C11_BatchAtomic ==
    [][\A p \in Procs :
          (/\ Len(log'[p]) = Len(log[p]) + 1
           /\ log'[p][Len(log'[p])].call \in BatchInserts) =>
             LET e == log'[p][Len(log'[p])]
             IN IF e.ok
                THEN /\ Len(e.ret) = Len(e.arg)
                     /\ UnsavedSeq(e.ret) = e.arg
                     /\ \A i \in 1..Len(e.ret) : e.ret[i].id # 0
                     /\ BatchTable(db', e.call) = BatchTable(db, e.call) \o e.ret
                     /\ \A n \in BatchInserts \ {e.call} :
                            BatchTable(db', n) = BatchTable(db, n)
                ELSE /\ e.ret = <<>>
                     /\ Tables(db') = Tables(db)]_vars

\* a concept batch of two rows has failed after both rows drew their ids
\* inside the transaction (the second insert or the commit failed)
C11_Witness ==
    \E i \in Entries(Caller, "db.CreateConceptsBatch") :
        /\ ~log[Caller][i].ok
        /\ Len(log[Caller][i].arg) = 2
        /\ db.seq.concepts = dbAtCall[Caller].seq.concepts + 2
        /\ db.concepts = dbAtCall[Caller].concepts

(***************************************************************************)
(* C12.  With calls arriving one at a time and no deletions, the store     *)
(* never holds two SourceContent rows with the same url, and a row, once   *)
(* stored, is never modified or removed by a later call.                   *)
(***************************************************************************)
OneRowPerURL ==
    \A i, j \in 1..Len(db.sources) :
        db.sources[i].url = db.sources[j].url => i = j

SourceRowsKept ==
    /\ Len(db'.sources) >= Len(db.sources)
    /\ \A i \in 1..Len(db.sources) : db'.sources[i] = db.sources[i]

\* C12: at most one SourceContent row per url, and rows are never modified
C12_OneSourcePerURL == []OneRowPerURL /\ [][SourceRowsKept]_vars

\* the last of the calls has returned, the new reference was submitted
\* again after its row had been stored, and the store holds one row for it
\* beside the row it started with
C12_Witness ==
    /\ calls = MaxCalls
    /\ pc[Caller] = "done"
    /\ url[Caller] = NewURL
    /\ RowsAtCall(Caller) # {}
    /\ Len(db.sources) = 2
    /\ db.sources[1] = SeededDB.sources[1]

(***************************************************************************)
(* Vocabulary of the properties of texts.                                  *)
(***************************************************************************)
\* two consecutive whitespace characters
HasDoubledSpace(s) == \E i \in 1..(Len(s) - 1) : IsSpace(s[i]) /\ IsSpace(s[i + 1])

\* one of the three noise tokens
HasNoise(s) == Contains(s, Music) \/ Contains(s, Applause) \/ Contains(s, Laughter)

\* an angle-bracket markup tag: "<", at least one character, ">"
HasTag(s) ==
    \E i, j \in 1..Len(s) :
        /\ j > i + 1
        /\ s[i] = "<"
        /\ s[j] = ">"
        /\ \A k \in (i + 1)..(j - 1) : s[k] \notin {"<", ">"}

(***************************************************************************)
(* C13.  As stated: CleanTranscript is idempotent, that is, cleaning the   *)
(* text CleanTranscript has returned gives that text again.                *)
(***************************************************************************)
C13_AsStated ==
    tpc = "CleanTranscript" => CleanTranscript(text) = text

(***************************************************************************)
(* C14.  As stated: for every caption payload and encoding, the text that  *)
(* GetTranscript has decoded and cleaned contains no two consecutive       *)
(* whitespace characters and none of [Music], [Applause], [Laughter].      *)
(***************************************************************************)
C14_AsStated ==
    (tpc = "done" /\ transcript.err \in {"", "ErrNoTranscript"}) =>
        ~HasDoubledSpace(text) /\ ~HasNoise(text)

(***************************************************************************)
(* C15.  As stated: for every payload, what ParseJSON3, ParseSRT or        *)
(* ParseVTT returns contains no "-->" and no angle-bracket markup tag.     *)
(***************************************************************************)
C15_AsStated ==
    tpc \in {"ParseJSON3", "ParseSRT", "ParseVTT"} =>
        ~Contains(text, Arrow) /\ ~HasTag(text)

(***************************************************************************)
(* C16.  For every metadata document in which neither automatic_captions   *)
(* nor subtitles holds English entries (the key or "en" is missing or of   *)
(* another type, or the list is empty), findBestSubtitleURL returns        *)
(* ("", "") and GetTranscript fails with ErrNoTranscript.                  *)
(***************************************************************************)
HasEnglishEntries(subsData) ==
    subsData.isMap /\ subsData.enIsList /\ Len(subsData.en) > 0

\* GetTranscript has called findBestSubtitleURL
Located ==
    /\ tpc \in {"located", "downloaded", "parsed", "done"}
    /\ transcript.err \notin {"ErrInvalidURL", "ErrVideoPrivate", "ErrCommandFailed",
                               "failed to parse video data"}

\* C16: without English entries no descriptor is found and the call fails
\* with ErrNoTranscript
C16_NoEnglishTrack ==
    (/\ Located
     /\ ~HasEnglishEntries(videoData.automatic_captions)
     /\ ~HasEnglishEntries(videoData.subtitles)) =>
        /\ findBestSubtitleURL(videoData) = NoSubtitle
        /\ subtitle = NoSubtitle
        /\ tpc = "done"
        /\ transcript = TranscriptError("ErrNoTranscript")

\* the call has failed on a document whose automatic_captions is an object
\* without an "en" list and whose subtitles is not an object
C16_Witness ==
    /\ tpc = "done"
    /\ transcript.err = "ErrNoTranscript"
    /\ videoData.automatic_captions.isMap
    /\ ~videoData.automatic_captions.enIsList
    /\ ~videoData.subtitles.isMap

(***************************************************************************)
(* C17.  Within the English entry list of the collection the descriptor    *)
(* is taken from, the descriptor returned is an entry of the format that   *)
(* ranks highest in json3 > vtt > srv3 > srv2 > srv1 among the entries     *)
(* with a ranked ext and a string url, wherever the entries stand in the   *)
(* list, and the encoding returned is that format.                         *)
(***************************************************************************)
\* the entries with a ranked ext and a string url
Ranked(en) ==
    {i \in 1..Len(en) :
        /\ en[i].isMap
        /\ en[i].extIsString
        /\ en[i].urlIsString
        /\ en[i].ext \in {"json3", "vtt", "srv3", "srv2", "srv1"}}

Rank(f) ==
    CASE f = "json3" -> 1 [] f = "vtt" -> 2 [] f = "srv3" -> 3
      [] f = "srv2" -> 4 [] f = "srv1" -> 5

\* the descriptor d is an entry of en of the best-ranked format
IsBestOf(d, en) ==
    \E i \in Ranked(en) :
        /\ \A j \in Ranked(en) : Rank(en[i].ext) <= Rank(en[j].ext)
        /\ d.format = en[i].ext
        /\ d.url = en[i].url

\* C17: the descriptor is an entry of the best-ranked format of its list
C17_FormatPreference ==
    Located =>
        /\ (/\ HasEnglishEntries(videoData.automatic_captions)
            /\ Ranked(videoData.automatic_captions.en) # {}) =>
               IsBestOf(subtitle, videoData.automatic_captions.en)
        /\ (/\ ~HasEnglishEntries(videoData.automatic_captions)
            /\ HasEnglishEntries(videoData.subtitles)
            /\ Ranked(videoData.subtitles.en) # {}) =>
               IsBestOf(subtitle, videoData.subtitles.en)

\* json3 was chosen from a list that holds a vtt entry before it
C17_Witness ==
    /\ Located
    /\ HasEnglishEntries(videoData.automatic_captions)
    /\ Len(videoData.automatic_captions.en) = 2
    /\ videoData.automatic_captions.en[1] = Track("vtt")
    /\ videoData.automatic_captions.en[2] = Track("json3")
    /\ subtitle = [url |-> "https://caption/json3", format |-> "json3"]

(***************************************************************************)
(* C18.  Every Transcript GetTranscript returns has non-empty text, and    *)
(* whenever the decoded and cleaned text is empty GetTranscript returns    *)
(* ErrNoTranscript and no Transcript.                                      *)
(***************************************************************************)
\* the call has decoded a payload and cleaned the text
Cleaned ==
    /\ tpc = "done"
    /\ Located
    /\ subtitle.url # ""
    /\ served.kind = "ok"
    /\ ~Decode(subtitle.format, subtitleData).err

\* C18: a returned Transcript is never empty
C18_TranscriptNonEmpty ==
    /\ transcript.nonNil =>
          /\ Cleaned
          /\ transcript.text = text
          /\ transcript.text # <<>>
          /\ transcript.err = ""
    /\ (Cleaned /\ text = <<>>) => transcript = TranscriptError("ErrNoTranscript")

\* a payload that decodes to a text of noise tokens only was cleaned to
\* the empty text
C18_Witness ==
    /\ Cleaned
    /\ text = <<>>
    /\ HasNoise(Decode(subtitle.format, subtitleData).text)

(***************************************************************************)
(* C19. A call of SendMessage issues at most 3 HTTP attempts, whatever mix *)
(* of connection errors and 429 replies it meets; an attempt is followed   *)
(* by another one only if it ended in a connection error or a 429; a call  *)
(* whose third attempt is a connection error fails with ErrTimeout, one    *)
(* whose third attempt is a 429 fails with ErrRateLimitExceeded.           *)
(***************************************************************************)
ConnectionError(r) == r.failed

RateLimited(r) == ~r.failed /\ r.status = 429

C19_RetryPolicy ==
    /\ Len(wire) <= 3
    /\ \A i \in 1..(Len(wire) - 1) : ConnectionError(wire[i]) \/ RateLimited(wire[i])
    /\ (spc = "done" /\ Len(wire) = 3 /\ ConnectionError(wire[3]))
          => (~sendResult.nonNil /\ sendResult.err = "ErrTimeout")
    /\ (spc = "done" /\ Len(wire) = 3 /\ RateLimited(wire[3]))
          => (~sendResult.nonNil /\ sendResult.err = "ErrRateLimitExceeded")

\* a connection error, then two 429 replies: three attempts, two sleeps
C19_Witness ==
    /\ spc = "done"
    /\ Len(wire) = 3
    /\ ConnectionError(wire[1])
    /\ RateLimited(wire[2])
    /\ RateLimited(wire[3])
    /\ slept = <<2, 20>>
    /\ sendResult.err = "ErrRateLimitExceeded"

(***************************************************************************)
(* C20. As stated: after an attempt that received a status other than 200  *)
(* and other than 429, SendMessage makes no further attempt and no backoff *)
(* wait, and returns an error wrapping ErrAPIError that carries the        *)
(* upstream error message, or the status and the raw body when the error   *)
(* envelope is not parsable.                                               *)
(***************************************************************************)
NonRetryable(r) == ~r.failed /\ r.status # 200 /\ r.status # 429

LastAttempt == wire[Len(wire)]

Refused == Len(wire) > 0 /\ NonRetryable(LastAttempt)

Carried(r) ==
    IF r.body.json THEN <<r.body.errorMessage>> ELSE <<ToString(r.status), r.body.raw>>

NoMoreAttempts == Refused => (wire' = wire /\ slept' = slept)

ReturnsAPIError ==
    (spc = "done" /\ Refused)
       => /\ ~sendResult.nonNil
          /\ sendResult.err = "ErrAPIError"
          /\ sendResult.detail = Carried(LastAttempt)

C20_AsStated == []ReturnsAPIError /\ [][NoMoreAttempts]_vars

(***************************************************************************)
(* C20, amended. After an attempt that received a status other than 200    *)
(* and other than 429, SendMessage makes no further attempt and no backoff *)
(* wait; if the body of that response can be read it returns an error      *)
(* wrapping ErrAPIError that carries the upstream error message, or the    *)
(* status and the raw body when the envelope is not parsable; if the body  *)
(* cannot be read it returns a "failed to read response" error that does   *)
(* not wrap ErrAPIError.                                                   *)
(***************************************************************************)
ReturnsAPIErrorIfRead ==
    (spc = "done" /\ Refused)
       => /\ ~sendResult.nonNil
          /\ IF LastAttempt.body.readable
             THEN /\ sendResult.err = "ErrAPIError"
                  /\ sendResult.detail = Carried(LastAttempt)
             ELSE sendResult.err = "failed to read response"

C20_NonRetryableStatus == []ReturnsAPIErrorIfRead /\ [][NoMoreAttempts]_vars

\* a 429, one sleep, then a 500 with an error envelope
C20_Witness ==
    /\ spc = "done"
    /\ Len(wire) = 2
    /\ RateLimited(wire[1])
    /\ wire[2].status = 500
    /\ wire[2].body.json
    /\ slept = <<10>>
    /\ sendResult.err = "ErrAPIError"
    /\ sendResult.detail = <<"overloaded">>

(***************************************************************************)
(* C21.  When the service replies HTTP 200 with a content-block list that  *)
(* is empty or whose first block's text is the empty string, SendMessage   *)
(* and SendMessageWithSystem fail with ErrEmptyResponse and return no      *)
(* text; for any other content-block list of an HTTP 200 reply they return *)
(* the first block's text.                                                 *)
(***************************************************************************)
\* the loop was left with a 200 whose body was read and parsed
Replied200 ==
    /\ Len(wire) > 0
    /\ ~LastAttempt.failed
    /\ LastAttempt.status = 200
    /\ LastAttempt.body.readable
    /\ LastAttempt.body.json

EmptyContent ==
    \/ LastAttempt.body.content = <<>>
    \/ LastAttempt.body.content[1] = ""

C21_EmptyResponse ==
    /\ (spc \in {"done", "returned"} /\ Replied200) =>
          IF EmptyContent
          THEN /\ ~sendResult.nonNil
               /\ sendResult.err = "ErrEmptyResponse"
               /\ sendResult.detail = <<>>
          ELSE /\ sendResult.nonNil
               /\ sendResult.err = ""
               /\ sendResult.detail[1] = LastAttempt.body.content[1]
    /\ (spc = "returned" /\ Replied200) =>
          IF EmptyContent
          THEN textReply = [text |-> "", err |-> "ErrEmptyResponse"]
          ELSE textReply = [text |-> LastAttempt.body.content[1], err |-> ""]

\* a 200 whose first block is empty although a second one has text
C21_Witness ==
    /\ spc = "returned"
    /\ Replied200
    /\ LastAttempt.body.content = <<"", "more">>
    /\ textReply.err = "ErrEmptyResponse"
    /\ textReply.text = ""

(***************************************************************************)
(* C22.  As stated: once the caller's context is cancelled, a derivation   *)
(* call in progress issues no further HTTP attempt and sits out no retry   *)
(* backoff wait.  (The attempt the cancellation interrupts ends with an    *)
(* error; in SendMessage a sleep stands between any two attempts, so a     *)
(* further attempt is always preceded by a sleep taken under cancellation.)*)
(***************************************************************************)
StopsOnCancel == ctxDone => slept' = slept

C22_AsStated == [][StopsOnCancel]_vars

(***************************************************************************)
(* C23.  When the derivation reply for a platform cannot be parsed as      *)
(* JSON, GenerateContent does not fail: it returns an item of that         *)
(* platform whose body is the raw reply text and whose title is the first  *)
(* concept's title when there is exactly one concept and that title        *)
(* followed by " and More" when there are several; the item is among those *)
(* handed to the batch insert and, when the insert succeeds, in the        *)
(* returned GeneratedContent.                                              *)
(***************************************************************************)
\* the content-generation calls of run p whose reply was not JSON
UnparsableContentCalls(p) ==
    {i \in Entries(p, "claude.GenerateContent") : log[p][i].arg[2] = "unparsable"}

SynthesizedTitle(cs) ==
    IF Len(cs) = 1 THEN cs[1].title ELSE cs[1].title \o " and More"

IsFallbackItem(item, e, cs) ==
    /\ item.platform = e.arg[1]
    /\ item.body = e.arg[3][1]
    /\ item.title = SynthesizedTitle(cs)

VideoInfoReturned == method = "GetVideoInfo" /\ vpc = "done"

C24_MetadataSurvivesTranscriptFailure ==
    VideoInfoReturned =>
        /\ (metadata.nonNil /\ ~transcript.nonNil) =>
              /\ vinfo.nonNil
              /\ vinfo.Metadata = metadata
              /\ vinfo.Metadata.nonNil
              /\ ~vinfo.Transcript.nonNil
              /\ vinfo.err # ""
              /\ vinfo.cause = transcript.err
              /\ transcript.err # ""
        /\ ~metadata.nonNil =>
              /\ ~vinfo.nonNil
              /\ vinfo.err = metadata.err
              /\ vinfo.err # ""
              /\ tpc = "idle"
              /\ transcript = NoTranscript
              /\ Len(external) <= 1
        /\ vinfo.Transcript.nonNil => (vinfo.err = "" /\ vinfo.nonNil)

\* the metadata fetched, then no caption track in the document
C24_Witness ==
    /\ VideoInfoReturned
    /\ vinfo.nonNil
    /\ vinfo.Metadata.title = "video title"
    /\ ~vinfo.Transcript.nonNil
    /\ vinfo.cause = "ErrNoTranscript"
    /\ external = <<"yt-dlp", "yt-dlp">>

(***************************************************************************)
(* C25.  For a reference that matches none of the accepted URL shapes,     *)
(* GetVideoInfo, GetVideoMetadata and GetTranscript fail with              *)
(* ErrInvalidURL before any external-tool invocation or HTTP fetch is      *)
(* made.                                                                   *)
(***************************************************************************)
C25_InvalidURLFailsFast ==
    ~ValidateURL(videoURL) =>
        /\ external = <<>>
        /\ vpc = "done" =>
              CASE method = "GetVideoMetadata" ->
                      ~metadata.nonNil /\ metadata.err = "ErrInvalidURL"
                [] method = "GetVideoInfo" ->
                      ~vinfo.nonNil /\ vinfo.err = "ErrInvalidURL"
                [] method = "GetTranscript" ->
                      ~transcript.nonNil /\ transcript.err = "ErrInvalidURL"

\* GetVideoInfo returned for the malformed reference
C25_Witness ==
    /\ videoURL = BadURL
    /\ method = "GetVideoInfo"
    /\ vpc = "done"
    /\ vinfo.err = "ErrInvalidURL"
    /\ external = <<>>

(***************************************************************************)
(* C26.  The pipeline never loses prior progress: whichever later stage    *)
(* of a run fails, every row an earlier stage of that run has committed    *)
(* (SourceContent, concepts, quizzes) is still in its table, unmodified,   *)
(* from the moment it was committed until and when the run returns, and    *)
(* no step changes or removes a row of any table.                          *)
(***************************************************************************)
\* every row the successful calls of the insert returned is in the table
Kept(p, name, table) == Range(Produced(p, name)) \subseteq Range(table)

ProgressKept(p) ==
    /\ Kept(p, "db.CreateSourceContent", db.sources)
    /\ Kept(p, "db.CreateConceptsBatch", db.concepts)
    /\ Kept(p, "db.CreateQuizBatch", db.quizzes)

\* a step extends the tables and leaves their rows as they are
RowsKept ==
    \A t \in 1..Len(Tables(db)) :
        /\ Len(Tables(db')[t]) >= Len(Tables(db)[t])
        /\ SubSeq(Tables(db')[t], 1, Len(Tables(db)[t])) = Tables(db)[t]

C26_NoProgressLost == [](\A p \in Procs : ProgressKept(p)) /\ [][RowsKept]_vars

\* the content insert failed after source, two concepts and two quizzes
\* had been committed
C26_Witness ==
    /\ pc[Caller] = "done"
    /\ ContentInsertFailed(Caller)
    /\ Len(Produced(Caller, "db.CreateSourceContent")) = 1
    /\ Len(Produced(Caller, "db.CreateConceptsBatch")) = 2
    /\ Len(Produced(Caller, "db.CreateQuizBatch")) = 2
    /\ ProgressKept(Caller)
    /\ result[Caller].GeneratedContent = <<>>

(***************************************************************************)
(* C27.  Two concurrent ProcessYouTubeURL runs for the same reference can  *)
(* both pass the duplicate check before either has inserted its           *)
(* SourceContent, and a state with two SourceContent rows for one url is   *)
(* reachable (the witness); nothing prevents it: a run that has passed the *)
(* check can insert its row whatever rows the table holds by then, and the *)
(* rows two runs inserted are two rows of the table.                       *)
(***************************************************************************)
Inserted(p) == Produced(p, "db.CreateSourceContent")

\* the insert of run p can go through and add a row for its url
InsertCanSucceed(p) ==
    ENABLED (/\ SaveSourceContent(p)
             /\ Len(db'.sources) = Len(db.sources) + 1
             /\ db'.sources[Len(db'.sources)].url = url[p])

C27_DuplicateRace ==
    /\ \A p \in Procs : pc[p] = "saveSource" => InsertCanSucceed(p)
    /\ \A p \in Procs : Range(Inserted(p)) \subseteq Range(db.sources)
    /\ \A p, q \in Procs :
          (p # q /\ Inserted(p) # <<>> /\ Inserted(q) # <<>>) =>
              Inserted(p)[1].id # Inserted(q)[1].id

\* both runs found no row for the reference when they looked, both
\* inserted, and the table holds two rows with that url
C27_Witness ==
    /\ \A p \in Procs :
          /\ url[p] = NewURL
          /\ log[p][1] = Call("db.GetSourceContentByURL", <<NewURL>>, TRUE, <<>>)
          /\ Inserted(p) # <<>>
    /\ Cardinality({i \in 1..Len(db.sources) : db.sources[i].url = NewURL}) = 2

(***************************************************************************)
(* C28.  As stated: a submission of a reference whose first run completed  *)
(* returns the cached data: when the three lookups succeed, its Concepts,  *)
(* Quizzes and GeneratedContent hold exactly the persisted rows of that    *)
(* source, each row exactly once, whatever the number of concepts.         *)
(***************************************************************************)
\* seq lists the elements of S, each once
ExactlyOnce(seq, S) == Range(seq) = S /\ Len(seq) = Cardinality(S)

\* run p returned from getExistingProcessResult and none of its lookups
\* failed
CachedResult(p) ==
    /\ pc[p] = "done"
    /\ result[p].nonNil
    /\ Entries(p, "db.GetConceptsBySourceContentID") # {}
    /\ \A i \in 1..Len(log[p]) : log[p][i].ok

ConceptsOfSource(id) == {c \in Range(db.concepts) : c.sourceContentId = id}

QuizzesOfSource(id) ==
    {q \in Range(db.quizzes) : \E c \in ConceptsOfSource(id) : q.conceptId = c.id}

ContentsOfSource(id) ==
    {g \in Range(db.contents) :
        \E c \in ConceptsOfSource(id) : c.id \in Range(g.conceptIds)}

C28_AsStated ==
    CachedResult(Caller) =>
        LET res == result[Caller]
        IN /\ ExactlyOnce(res.Concepts, ConceptsOfSource(res.SourceContent.id))
           /\ ExactlyOnce(res.Quizzes, QuizzesOfSource(res.SourceContent.id))
           /\ ExactlyOnce(res.GeneratedContent, ContentsOfSource(res.SourceContent.id))

(***************************************************************************)
(* C29.  As stated: GetGeneratedContentByConceptIDs(ids) returns exactly   *)
(* the stored items whose conceptIds share at least one id with the query  *)
(* set: every such item once, and no item whose conceptIds is disjoint     *)
(* from the query set or empty.                                            *)
(***************************************************************************)
SharesAnId(g, ids) == Range(g.conceptIds) \cap Range(ids) # {}

C29_AsStated ==
    \A i \in Entries(Caller, "db.GetGeneratedContentByConceptIDs") :
        LET e == log[Caller][i]
        IN e.ok => ExactlyOnce(e.ret, {g \in Range(db.contents) : SharesAnId(g, e.arg)})

(***************************************************************************)
(* C30.  findBestSubtitleURL prefers the automatic-captions collection     *)
(* over the manual-subtitles collection regardless of format: whenever the *)
(* automatic collection yields a descriptor, be it of the least-preferred  *)
(* format or the first-entry fallback, that descriptor is returned; the    *)
(* manual collection decides the result only when the automatic one yields *)
(* none.                                                                   *)
(***************************************************************************)
\* what one collection yields: nothing when it is not an object
Yield(subsData) ==
    IF subsData.isMap THEN extractSubtitleURL(subsData, formatPreference)
    ELSE NoSubtitle

C30_AutomaticFirst ==
    Located =>
        LET auto == Yield(videoData.automatic_captions)
            subs == Yield(videoData.subtitles)
        IN /\ subtitle = findBestSubtitleURL(videoData)
           /\ auto.url # "" => subtitle = auto
           /\ auto.url = "" =>
                 subtitle = (IF subs.url # "" THEN subs ELSE NoSubtitle)

\* the automatic collection holds only a track of an unranked format and
\* the manual collection a ranked one: the unranked automatic track is taken
C30_Witness ==
    /\ Located
    /\ videoData.automatic_captions = SubsData(TRUE, TRUE, <<Track("ttml")>>)
    /\ videoData.subtitles = SubsData(TRUE, TRUE, <<Track("srv1")>>)
    /\ subtitle = [url |-> "https://caption/ttml", format |-> "ttml"]

(***************************************************************************)
(* C31.  As stated: when a collection has at least one English entry but   *)
(* none of a preferred format, extractSubtitleURL falls back to the first  *)
(* entry found and returns its url, tagged with the ext the entry declares *)
(* or "unknown" when it declares none; it returns none for the collection  *)
(* only when no English entry exists.  An entry counts as found when it is *)
(* an object with a string url.                                            *)
(***************************************************************************)
\* the entries of an "en" list that carry a url
WithURL(en) == {i \in 1..Len(en) : en[i].isMap /\ en[i].urlIsString}

\* the descriptor of entry e under the fallback rule
FallbackOf(e) ==
    [url |-> e.url, format |-> IF e.extIsString THEN e.ext ELSE "unknown"]

FallsBackToFirstFound(subsData) ==
    LET en == subsData.en
        d == extractSubtitleURL(subsData, formatPreference)
    IN HasEnglishEntries(subsData) =>
          /\ (Ranked(en) = {} /\ WithURL(en) # {}) => d = FallbackOf(en[Min(WithURL(en))])
          /\ d = NoSubtitle => WithURL(en) = {}

C31_AsStated ==
    Located =>
        /\ FallsBackToFirstFound(videoData.automatic_captions)
        /\ FallsBackToFirstFound(videoData.subtitles)

(***************************************************************************)
(* C32.  GetTranscript decodes by the located encoding: json3 only as      *)
(* segment-JSON, a malformed payload being a decode error; srv1, srv2 and  *)
(* srv3 as segment-JSON first and as WebVTT only when that fails; vtt and  *)
(* every other encoding, "unknown" included, as WebVTT, which never        *)
(* reports a decode error.                                                 *)
(***************************************************************************)
\* the decoding step has produced a text, not yet cleaned
Decoded == tpc = "parsed"

\* the decoding step has failed
DecodeFailed == tpc = "done" /\ transcript = TranscriptError("failed to parse subtitle")

DecodedAsJSON3 == Decoded /\ ~ParseJSON3(subtitleData).err /\ text = ParseJSON3(subtitleData).text

DecodedAsVTT == Decoded /\ text = ParseVTT(subtitleData).text

C32_DecodeDispatch ==
    /\ (Decoded \/ DecodeFailed) =>
          CASE subtitle.format = "json3" ->
                  IF ParseJSON3(subtitleData).err THEN DecodeFailed ELSE DecodedAsJSON3
            [] subtitle.format \in {"srv1", "srv2", "srv3"} ->
                  IF ParseJSON3(subtitleData).err THEN DecodedAsVTT ELSE DecodedAsJSON3
            [] OTHER -> DecodedAsVTT
    /\ tpc \in {"downloaded", "parsed"} => ~ParseVTT(subtitleData).err

\* an srv3 payload that is not segment-JSON was decoded as WebVTT to a
\* non-empty text
C32_Witness ==
    /\ Decoded
    /\ subtitle.format = "srv3"
    /\ ParseJSON3(subtitleData).err
    /\ text = ParseVTT(subtitleData).text
    /\ text # <<>>

(***************************************************************************)
(* C33.  Between attempts SendMessage waits an attempt-indexed backoff:    *)
(* after the k-th failed attempt (k = 1, 2) it waits 2k seconds if that    *)
(* attempt was a connection error and 10k seconds if it was an HTTP 429,   *)
(* one wait per retried attempt, and it never waits after the third        *)
(* attempt.                                                                *)
(***************************************************************************)
C33_Backoff ==
    /\ Len(slept) <= 2
    /\ Len(slept) = IF spc \in {"start", "do"} \/ Len(wire) = 0 THEN Len(wire)
                    ELSE Len(wire) - 1
    /\ \A k \in 1..Len(slept) :
          /\ ConnectionError(wire[k]) => slept[k] = 2 * k
          /\ RateLimited(wire[k]) => slept[k] = 10 * k
          /\ ConnectionError(wire[k]) \/ RateLimited(wire[k])

\* a 429, then two connection errors: waits of 10 and 4 seconds, none
\* after the third attempt
C33_Witness ==
    /\ spc = "done"
    /\ Len(wire) = 3
    /\ RateLimited(wire[1])
    /\ ConnectionError(wire[2])
    /\ ConnectionError(wire[3])
    /\ slept = <<10, 4>>
    /\ sendResult.err = "ErrTimeout"

(***************************************************************************)
(* C34.  As stated: for a reply with one fenced code block (an opening     *)
(* fence with or without a language tag, content, a closing fence)         *)
(* ParseJSONResponse parses exactly the content between the fences,        *)
(* wherever newlines and surrounding text occur; for a reply with no fence *)
(* it parses the whole reply; a parse failure is returned as an error.     *)
(* The language tag may be read as absent, as the word that follows the    *)
(* opening fence, or as the rest of the line of the opening fence.         *)
(***************************************************************************)
\* the positions of the fences of the reply
Fences(t) == Occurrences(t, <<Fence>>)

\* the content of the block between the fences at i and j, under each
\* reading of the language tag
Contents(t, i, j) ==
    {SubSeq(t, i + 1, j - 1)}
    \cup (IF i + 1 < j /\ t[i + 1] \in {"json", "text"}
          THEN {SubSeq(t, i + 2, j - 1)} ELSE {})
    \cup {SubSeq(t, k + 1, j - 1) :
             k \in {k \in (i + 1)..(j - 1) :
                       t[k] = "\n" /\ \A m \in (i + 1)..(k - 1) : t[m] # "\n"}}

C34_AsStated ==
    parseResult.called =>
        /\ Fences(responseText) = {} => parseResult = Unmarshal(responseText)
        /\ Cardinality(Fences(responseText)) = 2 =>
              LET i == Min(Fences(responseText))
                  j == Max(Fences(responseText))
              IN parseResult \in {Unmarshal(c) : c \in Contents(responseText, i, j)}

(***************************************************************************)
(* C35.  As stated: every failure GetVideoInfo or GetTranscript returns is *)
(* one of the four kinds ErrNoTranscript, ErrInvalidURL, ErrVideoPrivate   *)
(* and ErrCommandFailed, and ErrVideoPrivate is reported exactly when the  *)
(* tool fails with one of the unavailability phrases on its stderr.        *)
(***************************************************************************)
FailureKinds == {"ErrNoTranscript", "ErrInvalidURL", "ErrVideoPrivate", "ErrCommandFailed"}

\* the error the call returned, unwrapped; "" for nil
FailureOf ==
    CASE method = "GetTranscript" -> transcript.err
      [] method = "GetVideoInfo" -> IF vinfo.cause # "" THEN vinfo.cause ELSE vinfo.err
      [] OTHER -> metadata.err

\* a tool invocation of the call failed with an unavailability phrase
ToolSaidUnavailable ==
    /\ ValidateURL(videoURL)
    /\ CASE method = "GetTranscript" -> ytdlp.kind = "private"
         [] method = "GetVideoInfo" ->
               \/ metaOut.kind = "private"
               \/ metaOut.kind = "json" /\ ytdlp.kind = "private"
         [] OTHER -> metaOut.kind = "private"

C35_AsStated ==
    (vpc = "done" /\ method \in {"GetVideoInfo", "GetTranscript"}) =>
        /\ FailureOf # "" => FailureOf \in FailureKinds
        /\ FailureOf = "ErrVideoPrivate" <=> ToolSaidUnavailable

\* the part that concerns ErrVideoPrivate alone
C35_Unavailable ==
    vpc = "done" => (FailureOf = "ErrVideoPrivate" <=> ToolSaidUnavailable)

(***************************************************************************)
(* C36.  ParseJSON3 returns the texts of all segments that are neither     *)
(* empty nor a bare newline, in document order across all events,          *)
(* separated by single spaces, with no leading or trailing white space;    *)
(* events without segments contribute nothing.                             *)
(***************************************************************************)
\* the segment texts of the document that count, in document order
KeptSegs(data) ==
    SelectSeq(Flatten(data.events), LAMBDA u : u # <<>> /\ u # <<"\n">>)

\* s neither starts nor ends with white space
NoEdgeSpace(s) == s = <<>> \/ (~IsSpace(s[1]) /\ ~IsSpace(s[Len(s)]))

C36_JSON3Text ==
    tpc = "ParseJSON3" =>
        /\ text = TrimSpace(Join(KeptSegs(subtitleData), <<" ">>))
        /\ NoEdgeSpace(text)
        /\ (\A i \in 1..Len(KeptSegs(subtitleData)) :
                NoEdgeSpace(KeptSegs(subtitleData)[i]))
              => text = Join(KeptSegs(subtitleData), <<" ">>)

\* three events of one segment each, the second a bare newline: the two
\* words come back separated by one space
C36_Witness ==
    /\ tpc = "ParseJSON3"
    /\ subtitleData.events = << <<<<"a">>>>, <<<<"\n">>>>, <<<<"a">>>> >>
    /\ text = <<"a", " ", "a">>

(***************************************************************************)
(* C37.  ParseSRT splits the payload into blank-line-delimited blocks and, *)
(* of each block of at least 3 lines, drops the first two lines and joins  *)
(* the remaining ones; blocks of fewer than 3 lines contribute nothing;    *)
(* the block texts are concatenated space-separated in file order.         *)
(***************************************************************************)
\* the lines of a block
LinesOf(block) == Split(TrimSpace(block), <<"\n">>)

\* the texts of the blocks of at least 3 lines, in file order
BlockTexts(raw) ==
    LET blocks == SelectSeq(Split(raw, <<"\n", "\n">>),
                            LAMBDA b : Len(LinesOf(b)) >= 3)
    IN [i \in 1..Len(blocks) |->
          Join(SubSeq(LinesOf(blocks[i]), 3, Len(LinesOf(blocks[i]))), <<" ">>)]

C37_SRTText ==
    tpc = "ParseSRT" => text = TrimSpace(Join(BlockTexts(subtitleData.raw), <<" ">>))

\* a cue of one line, a cue without text and a cue of two lines, one
\* blank line between them
C37_Witness ==
    /\ tpc = "ParseSRT"
    /\ subtitleData.raw = <<"1", "\n">> \o Arrow \o <<"\n", "a", "\n", "\n">>
                           \o <<"3", "\n">> \o Arrow \o <<"\n", "\n">>
                           \o <<"2", "\n">> \o Arrow \o <<"\n", "b", "\n", "c">>
    /\ text = <<"a", " ", "b", " ", "c">>

(***************************************************************************)
(* C38.  Every QuizQuestion persisted by the pipeline, and every           *)
(* QuizQuestion of a returned result, has correctAnswer in {A, B, C, D}:   *)
(* a generated question whose upper-cased answer is outside that set makes *)
(* the quiz batch insert of the run fail, which drops the quizzes of all   *)
(* concepts of that run; the invalid question is neither persisted nor     *)
(* returned.                                                               *)
(***************************************************************************)
AnswerLetters == {"A", "B", "C", "D"}

\* the questions the derivation calls of run p have produced
GeneratedQuestions(p) == Produced(p, "claude.GenerateQuiz")

\* one of them has an answer outside the four letters
InvalidGenerated(p) ==
    \E q \in Range(GeneratedQuestions(p)) : q.correctAnswer \notin AnswerLetters

C38_ValidAnswersOnly ==
    /\ \A q \in Range(db.quizzes) : q.correctAnswer \in AnswerLetters
    /\ \A p \in Procs :
          /\ pc[p] = "done" =>
                \A q \in Range(result[p].Quizzes) : q.correctAnswer \in AnswerLetters
          /\ (InvalidGenerated(p) /\ pc[p] \in {"contentLoop", "saveContent", "done"}) =>
                /\ QuizInsertFailed(p)
                /\ allQuizzes[p] = <<>>
                /\ db.quizzes = dbAtCall[p].quizzes
                /\ pc[p] = "done" => (Succeeded(p) /\ result[p].Quizzes = <<>>)

\* the questions of one concept were valid, one of the other concept was
\* not: the run has returned both concepts and no quiz
C38_Witness ==
    /\ pc[Caller] = "done"
    /\ InvalidGenerated(Caller)
    /\ \E q \in Range(GeneratedQuestions(Caller)) : q.correctAnswer = "B"
    /\ {q.conceptId : q \in Range(GeneratedQuestions(Caller))}
          = Ids(result[Caller].Concepts)
    /\ Len(result[Caller].Concepts) = 2
    /\ result[Caller].Quizzes = <<>>

(***************************************************************************)
(* C39.  As stated: once a run has persisted the SourceContent and then    *)
(* degraded, every later submission of the same reference takes the        *)
(* duplicate short-circuit, never retries the failed stage, and returns    *)
(* the same partial collections.  Stated for the submissions whose         *)
(* database reads all succeed.                                             *)
(***************************************************************************)
\* run p saved its source row, then a derivation call or an insert failed,
\* and it returned the partial result
Degraded(p) ==
    /\ Succeeded(p)
    /\ Inserted(p) # <<>>
    /\ \E i \in 1..Len(log[p]) :
          ~log[p][i].ok /\ (IsDerivation(log[p][i].call) \/ IsInsert(log[p][i].call))

\* the step is the duplicate check of run q, made after run p degraded:
\* it finds the row and goes to getExistingProcessResult
TakesShortCircuit(p, q) ==
    (/\ p # q
     /\ Degraded(p)
     /\ pc[q] = "idle" /\ pc'[q] # "idle"
     /\ url'[q] = url[p]
     /\ log'[q][1].ok) =>
        /\ pc'[q] = "existing"
        /\ sourceContent'[q] = result[p].SourceContent

\* the step is the return of getExistingProcessResult to run q after run p
\* degraded: the collections are those run p returned
SamePartialResult(p, q) ==
    (/\ p # q
     /\ Degraded(p)
     /\ url[q] = url[p]
     /\ pc[q] = "existing" /\ pc'[q] = "done"
     /\ \A i \in 1..Len(log'[q]) : log'[q][i].ok) =>
        /\ \A i \in 1..Len(log'[q]) :
              ~IsAcquisition(log'[q][i].call) /\ ~IsDerivation(log'[q][i].call)
        /\ db' = db
        /\ result'[q].nonNil
        /\ result'[q].SourceContent = result[p].SourceContent
        /\ result'[q].Concepts = result[p].Concepts
        /\ result'[q].Quizzes = result[p].Quizzes
        /\ result'[q].GeneratedContent = result[p].GeneratedContent

C39_AsStated ==
    [][\A p, q \in Procs : TakesShortCircuit(p, q) /\ SamePartialResult(p, q)]_vars

\* the part that concerns the short-circuit alone
C39_ShortCircuit == [][\A p, q \in Procs : TakesShortCircuit(p, q)]_vars

(***************************************************************************)
(* C40.  Every ProcessYouTubeURL run terminates, provided each external    *)
(* call returns or times out: a run that persisted n concepts has issued   *)
(* exactly one concept-extraction call, at most n quiz-generation calls    *)
(* (one per persisted concept, in order) and at most 3 content-generation  *)
(* calls, one after the other, and each SendMessage call makes at most 3   *)
(* HTTP attempts and returns.                                              *)
(***************************************************************************)
\* a run that has been called comes to its return
RunTerminates == \A p \in Procs : (pc[p] \notin {"idle", "done"}) ~> (pc[p] = "done")

\* a call of SendMessage comes to its return
CallTerminates == (spc \in {"start", "do", "sleep", "read"}) ~> (spc \in {"done", "returned"})

\* the derivation calls of run p so far
CallCounts(p) ==
    LET extractions == CallsOf(p, "claude.ExtractConcepts")
        quizCalls == CallsOf(p, "claude.GenerateQuiz")
        contentCalls == CallsOf(p, "claude.GenerateContent")
        persisted == Produced(p, "db.CreateConceptsBatch")
    IN /\ Len(extractions) <= 1
       /\ Len(quizCalls) <= Len(persisted)
       /\ \A k \in 1..Len(quizCalls) : quizCalls[k].arg = <<persisted[k].id>>
       /\ Len(contentCalls) <= 3
       /\ FullRun(p) =>
             /\ Len(extractions) = 1
             /\ pc[p] = "done" =>
                   (Len(quizCalls) = Len(persisted) /\ Len(contentCalls) = 3)
       /\ ~FullRun(p) => (quizCalls = <<>> /\ contentCalls = <<>>)

C40_Terminates ==
    /\ RunTerminates
    /\ CallTerminates
    /\ [](\A p \in Procs : CallCounts(p))
    /\ [](Len(wire) <= 3)

\* a run has returned after one extraction call, two quiz calls for its
\* two persisted concepts and three content calls
C40_Witness ==
    /\ pc[Caller] = "done"
    /\ Len(Produced(Caller, "db.CreateConceptsBatch")) = 2
    /\ Len(CallsOf(Caller, "claude.ExtractConcepts")) = 1
    /\ Len(CallsOf(Caller, "claude.GenerateQuiz")) = 2
    /\ Len(CallsOf(Caller, "claude.GenerateContent")) = 3

====
